---- MODULE Spec2Model ----
(***************************************************************************)
(* Tool dispatch and session lifecycle of the iOS-simulator MCP server:    *)
(* ToolRegistry, CommandRouter, the call-tool request handler of MCPServer,*)
(* SimulatorManager (sessions, boot, shutdown, polling, focus), the        *)
(* create-session handler, and the idb process executor of IDBManager.     *)
(*                                                                         *)
(* Strings that the code builds by concatenation are sequences of tokens,  *)
(* so that "Error executing " + name + ": " + message is                   *)
(* <<"Error executing ", name, ": ">> \o message.                          *)
(***************************************************************************)
EXTENDS Integers, Sequences, FiniteSets, TLC

VARIABLES tools, last, response, devices, activeSessions, nextSessionId, simLast,
          sessionObjects, appConfig, calls, idb

vars == <<tools, last, response, devices, activeSessions, nextSessionId, simLast,
          sessionObjects, appConfig, calls, idb>>

Range(seq) == {seq[i] : i \in 1..Len(seq)}

(***************************************************************************)
(* Bounds                                                                  *)
(***************************************************************************)
MaxTools == 2
MaxSessions == 2
MaxDevices == 2

ToolNames == {"a", "b", "c"}
Categories == {"simulator", "ui-automation"}

(***************************************************************************)
(* JavaScript values a handler can resolve to.  Every value is a record of *)
(* one shape: its typeof, its String() rendering, and, for objects, the    *)
(* fields formatResult looks at.                                           *)
(***************************************************************************)
Absent == [tag |-> "absent", items |-> <<>>, text |-> <<>>]
ArrayOf(blocks) == [tag |-> "array", items |-> blocks, text |-> <<>>]
StringOf(toks) == [tag |-> "string", items |-> <<>>, text |-> toks]
OtherOf(tok) == [tag |-> "other", items |-> <<>>, text |-> <<tok>>]

TextBlock(toks) == [type |-> "text", text |-> toks]

Prim(t, toks) ==
  [type |-> t, str |-> toks, content |-> Absent, message |-> Absent,
   isError |-> Absent, extra |-> Absent]

Obj(c, m, e, x) ==
  [type |-> "object", str |-> <<"[object Object]">>, content |-> c,
   message |-> m, isError |-> e, extra |-> x]

JsTrue == OtherOf("true")
JsFalse == OtherOf("false")

Undefined == Prim("undefined", <<"undefined">>)
Null == [Prim("object", <<"null">>) EXCEPT !.extra = OtherOf("null")]

IsNull(v) == v.type = "object" /\ v.extra = OtherOf("null")

\* JavaScript truthiness: undefined, null, "", 0 and false are falsy.
Truthy(v) ==
  CASE v.type = "undefined" -> FALSE
    [] IsNull(v) -> FALSE
    [] v.type = "string" -> v.str # <<>>
    [] v.type = "number" -> v.str # <<"0">>
    [] v.type = "boolean" -> v.str # <<"false">>
    [] OTHER -> TRUE

OkBlock == TextBlock(<<"OK">>)
FailBlock == TextBlock(<<"Failed">>)

ObjectValues ==
  { Obj(ArrayOf(<<OkBlock>>), Absent, Absent, Absent),
    Obj(ArrayOf(<<OkBlock>>), StringOf(<<"msg">>), Absent, Absent),
    Obj(ArrayOf(<<OkBlock, FailBlock>>), Absent, JsTrue, Absent),
    Obj(ArrayOf(<<FailBlock>>), Absent, JsTrue, Absent),
    Obj(ArrayOf(<<>>), Absent, Absent, Absent),
    Obj(OtherOf("1"), StringOf(<<"msg">>), Absent, Absent),
    Obj(OtherOf("1"), Absent, Absent, Absent),
    Obj(Absent, StringOf(<<"msg">>), Absent, Absent),
    Obj(Absent, StringOf(<<>>), Absent, OtherOf("2")),
    Obj(Absent, OtherOf("42"), Absent, Absent),
    Obj(Absent, Absent, Absent, OtherOf("2")),
    Obj(Absent, Absent, Absent, Absent) }

PrimitiveValues ==
  { Prim("string", <<"hello">>), Prim("string", <<>>),
    Prim("number", <<"0">>), Prim("number", <<"7">>),
    Prim("boolean", <<"false">>), Undefined, Null }

Values == ObjectValues \cup PrimitiveValues

(***************************************************************************)
(* Handlers: (args) -> Promise<any>.  A handler resolves to a value, or    *)
(* rejects with an Error carrying a message, or rejects with a value that  *)
(* is not an instance of Error.                                            *)
(***************************************************************************)
Resolves(v) == [kind |-> "resolve", value |-> v, message |-> <<>>]
ThrowsError(msg) == [kind |-> "throwError", value |-> Undefined, message |-> msg]
ThrowsOther(v) == [kind |-> "throwOther", value |-> v, message |-> <<>>]

Throwers ==
  { ThrowsError(<<"boom">>), ThrowsError(<<>>),
    ThrowsOther(Prim("string", <<"oops">>)),
    ThrowsOther(Obj(Absent, StringOf(<<"msg">>), Absent, Absent)) }

AllHandlers == {Resolves(v) : v \in Values} \cup Throwers

\* The handlers of the registry specification: one of each behaviour.
RegistryHandlers ==
  { Resolves(Prim("string", <<"hello">>)),
    Resolves(Obj(ArrayOf(<<OkBlock>>), Absent, Absent, Absent)),
    ThrowsError(<<"boom">>),
    ThrowsOther(Prim("string", <<"oops">>)) }

NoSchema == [required |-> <<>>, properties |-> <<>>]

RegisteredTool(n, c, h, s) ==
  [name |-> n, category |-> c, handler |-> h, inputSchema |-> s]

RegistryToolSpecs ==
  {RegisteredTool(n, c, h, NoSchema) :
     n \in ToolNames, c \in Categories, h \in RegistryHandlers}

NoTool == RegisteredTool("", "", Resolves(Undefined), NoSchema)

(***************************************************************************)
(* ToolRegistry: a Map<string, RegisteredTool>, kept as the sequence of    *)
(* its values in insertion order.                                          *)
(***************************************************************************)
RECURSIVE IndexOf(_, _, _)
IndexOf(map, name, i) ==
  IF i > Len(map) THEN 0
  ELSE IF map[i].name = name THEN i
  ELSE IndexOf(map, name, i + 1)

MapHas(map, name) == IndexOf(map, name, 1) # 0

MapGet(map, name) ==
  IF MapHas(map, name) THEN map[IndexOf(map, name, 1)] ELSE NoTool

\* Map.set that appends also when the key exists.
MapSetAppend(map, tool) == Append(map, tool)

\* Map.set: an existing key keeps its position, a new key goes last.
MapSet(map, tool) ==
  IF MapHas(map, tool.name)
  THEN [map EXCEPT ![IndexOf(map, tool.name, 1)] = tool]
  ELSE Append(map, tool)

\* Map.delete that also drops the entries after the key.
MapDeleteTruncate(map, name) ==
  LET i == IndexOf(map, name, 1) IN
  IF i = 0 THEN map ELSE SubSeq(map, 1, i - 1)

\* Map.delete: removes the entry of the key, if any.
MapDelete(map, name) ==
  LET i == IndexOf(map, name, 1) IN
  IF i = 0 THEN map
  ELSE SubSeq(map, 1, i - 1) \o SubSeq(map, i + 1, Len(map))

getTool(name) == MapGet(tools, name)

getAllTools == tools

\* A filter that ignores the category.
getToolsByCategoryAll(category) == tools

getToolsByCategory(category) ==
  SelectSeq(tools, LAMBDA tool : tool.category = category)

hasTool(name) == MapHas(tools, name)

getToolCount == Len(tools)

(***************************************************************************)
(* CommandRouter                                                           *)
(***************************************************************************)
Envelope(toks) ==
  Obj(ArrayOf(<<TextBlock(toks)>>), Absent, Absent, Absent)

\* JSON.stringify(result, null, 2) of an object: its own fields in order.
JSONstringify(v) ==
  <<"{">>
  \o (IF v.content.tag = "absent" THEN <<>>
      ELSE <<"\"content\": ">> \o v.content.text)
  \o (IF v.message.tag = "absent" THEN <<>>
      ELSE <<"\"message\": ">> \o v.message.text)
  \o (IF v.isError.tag = "absent" THEN <<>>
      ELSE <<"\"isError\": ">> \o v.isError.text)
  \o (IF v.extra.tag = "absent" THEN <<>>
      ELSE <<"\"extra\": ">> \o v.extra.text)
  \o <<"}">>

\* formatResult with the message rule ahead of the content rule.
formatResultMessageFirst(result) ==
  IF Truthy(result) /\ result.message.tag = "string"
    THEN Envelope(result.message.text)
  ELSE IF Truthy(result) /\ result.content.tag = "array" THEN result
  ELSE IF result.type = "string" THEN Envelope(result.str)
  ELSE IF result.type = "object" /\ ~IsNull(result)
    THEN Envelope(JSONstringify(result))
  ELSE Envelope(result.str)

formatResult(result) ==
  IF Truthy(result) /\ result.content.tag = "array" THEN result
  ELSE IF result.type = "string" THEN Envelope(result.str)
  ELSE IF Truthy(result) /\ result.message.tag = "string"
    THEN Envelope(result.message.text)
  ELSE IF result.type = "object" /\ ~IsNull(result)
    THEN Envelope(JSONstringify(result))
  ELSE Envelope(result.str)

\* A catch block that drops the message of the error.
ErrorResultNoMessage(toolName, isErrorInstance, message) ==
  Obj(ArrayOf(<<TextBlock(<<"Error executing ", toolName, ": ",
                            "Unknown error">>)>>),
      Absent, JsTrue, Absent)

\* The catch block of executeCommand.
ErrorResult(toolName, isErrorInstance, message) ==
  Obj(ArrayOf(<<TextBlock(<<"Error executing ", toolName, ": ">>
                           \o (IF isErrorInstance THEN message
                               ELSE <<"Unknown error">>))>>),
      Absent, JsTrue, Absent)

Resolved(v, inv) == [outcome |-> "resolved", value |-> v, invoked |-> inv]
Rejected(inv) == [outcome |-> "rejected", value |-> Undefined, invoked |-> inv]

\* executeCommand without the "tool not found" check: the handler found
\* under the name, if any, runs.
executeCommandNoCheck(toolName) ==
  LET tool == getTool(toolName) IN
  CASE tool.handler.kind = "resolve" ->
         Resolved(formatResult(tool.handler.value), TRUE)
    [] tool.handler.kind = "throwError" ->
         Resolved(ErrorResult(toolName, TRUE, tool.handler.message), TRUE)
    [] OTHER ->
         Resolved(ErrorResult(toolName, FALSE, <<>>), TRUE)

\* executeCommand with the "tool not found" error thrown outside the try.
executeCommandRethrow(toolName) ==
  LET tool == getTool(toolName) IN
  IF ~hasTool(toolName)
  THEN Rejected(FALSE)
  ELSE CASE tool.handler.kind = "resolve" ->
              Resolved(formatResult(tool.handler.value), TRUE)
         [] tool.handler.kind = "throwError" ->
              Resolved(ErrorResult(toolName, TRUE, tool.handler.message), TRUE)
         [] OTHER ->
              Resolved(ErrorResult(toolName, FALSE, <<>>), TRUE)

\* executeCommand(toolName, args): the settled promise and whether the
\* handler ran.
executeCommand(toolName) ==
  LET tool == getTool(toolName) IN
  IF ~hasTool(toolName)
  THEN Resolved(ErrorResult(toolName, TRUE, <<"Tool not found: ", toolName>>),
                FALSE)
  ELSE CASE tool.handler.kind = "resolve" ->
              Resolved(formatResult(tool.handler.value), TRUE)
         [] tool.handler.kind = "throwError" ->
              Resolved(ErrorResult(toolName, TRUE, tool.handler.message), TRUE)
         [] OTHER ->
              Resolved(ErrorResult(toolName, FALSE, <<>>), TRUE)

getAvailableCommands == [i \in 1..Len(getAllTools) |-> getAllTools[i].name]

getCommandsByCategory(category) ==
  LET ts == getToolsByCategory(category) IN
  [i \in 1..Len(ts) |-> ts[i].name]

hasCommand(toolName) == hasTool(toolName)

(***************************************************************************)
(* Operations on the registry and the router                               *)
(***************************************************************************)
NoCall ==
  [op |-> "none", name |-> "", tool |-> NoTool, ret |-> FALSE,
   settled |-> Resolved(Undefined, FALSE)]

registerTool(tool) ==
  /\ hasTool(tool.name) \/ Len(tools) < MaxTools
  /\ tools' = MapSet(tools, tool)
  /\ last' = [NoCall EXCEPT !.op = "registerTool", !.name = tool.name,
                            !.tool = tool]
  /\ UNCHANGED <<response, devices, activeSessions, nextSessionId, simLast,
               sessionObjects, appConfig, calls, idb>>

unregisterTool(name) ==
  /\ tools' = MapDelete(tools, name)
  /\ last' = [NoCall EXCEPT !.op = "unregisterTool", !.name = name,
                            !.ret = hasTool(name)]
  /\ UNCHANGED <<response, devices, activeSessions, nextSessionId, simLast,
               sessionObjects, appConfig, calls, idb>>

ExecuteCommand(toolName) ==
  /\ last' = [NoCall EXCEPT !.op = "executeCommand", !.name = toolName,
                            !.settled = executeCommand(toolName)]
  /\ UNCHANGED <<tools, response, devices, activeSessions, nextSessionId, simLast,
               sessionObjects, appConfig, calls, idb>>

\* The outcome of a call-tool request, as MCPServer returns or throws it.
Response(kind, code, message, name, arguments, tool, value, routed, invoked) ==
  [kind |-> kind, code |-> code, message |-> message, name |-> name,
   arguments |-> arguments, tool |-> tool, value |-> value,
   routed |-> routed, invoked |-> invoked]

NoResponse ==
  Response("none", "", <<>>, "", [defined |-> FALSE, entries |-> <<>>],
           NoTool, Undefined, FALSE, FALSE)

(***************************************************************************)
(* MCPServer: the call-tool request handler and its argument validation.   *)
(* An argument value is its typeof and its rendering; an arguments object  *)
(* is the sequence of its entries in Object.entries order.                 *)
(***************************************************************************)
MaxArgs == 2

ArgValue(t, tok) == [type |-> t, tok |-> tok]

ArgValues ==
  { ArgValue("string", "iPhone 15"), ArgValue("string", "Nokia"),
    ArgValue("number", "1"), ArgValue("boolean", "true") }

ArgKeys == {"deviceType", "autoBoot", "x"}

Property(k, t, e) == [key |-> k, type |-> t, hasEnum |-> e # <<>>, enum |-> e]

\* createSimulatorTools: create_rn_simulator_session.
CreateSessionSchema ==
  [required |-> <<"deviceType">>,
   properties |->
     << Property("deviceType", "string",
                 << ArgValue("string", "iPhone 15"),
                    ArgValue("string", "iPad Air") >>),
        Property("autoBoot", "boolean", <<>>) >>]

\* createUIAutomationTools: tap_coordinates.
TapCoordinatesSchema ==
  [required |-> <<"x">>,
   properties |->
     << Property("x", "number", <<>>) >>]

CatalogNames == {"create_rn_simulator_session", "tap_coordinates"}

RequestNames == CatalogNames \cup {"missing_tool"}

FrontDoorHandlers ==
  { Resolves(Obj(ArrayOf(<<OkBlock>>), Absent, Absent, Absent)),
    ThrowsError(<<"boom">>) }

Entry(k, v) == [key |-> k, value |-> v]

RECURSIVE ArgObjects(_)
ArgObjects(n) ==
  IF n = 0 THEN {<<>>}
  ELSE LET shorter == ArgObjects(n - 1) IN
       shorter \cup
       {Append(a, Entry(k, v)) :
          a \in {b \in shorter : Len(b) = n - 1},
          k \in ArgKeys, v \in ArgValues}

HasKey(args, k) == \E i \in 1..Len(args) : args[i].key = k

\* request.params.arguments: an object with distinct keys, or undefined.
RequestArguments ==
  {[defined |-> TRUE, entries |-> a] :
     a \in {b \in ArgObjects(MaxArgs) :
              \A i, j \in 1..Len(b) : b[i].key = b[j].key => i = j}}
  \cup {[defined |-> FALSE, entries |-> <<>>]}

\* args || {}
ArgsOrEmpty(arguments) ==
  IF arguments.defined THEN arguments.entries ELSE <<>>

NoThrow == [threw |-> FALSE, code |-> "", message |-> <<>>]
McpError(code, message) == [threw |-> TRUE, code |-> code, message |-> message]

InvalidRequest == "InvalidRequest"
InternalError == "InternalError"

\* schema.properties?.[key]
RECURSIVE PropertyIndex(_, _, _)
PropertyIndex(properties, key, i) ==
  IF i > Len(properties) THEN 0
  ELSE IF properties[i].key = key THEN i
  ELSE PropertyIndex(properties, key, i + 1)

Includes(seq, x) == \E i \in 1..Len(seq) : seq[i] = x

\* validatePropertyType without the enum test.
validatePropertyTypeNoEnum(key, value, schema) ==
  IF schema.type = "string" /\ value.type # "string"
    THEN McpError(InvalidRequest, <<"Argument ", key, " must be a string">>)
  ELSE IF schema.type = "number" /\ value.type # "number"
    THEN McpError(InvalidRequest, <<"Argument ", key, " must be a number">>)
  ELSE IF schema.type = "boolean" /\ value.type # "boolean"
    THEN McpError(InvalidRequest, <<"Argument ", key, " must be a boolean">>)
  ELSE NoThrow

validatePropertyType(key, value, schema) ==
  IF schema.type = "string" /\ value.type # "string"
    THEN McpError(InvalidRequest, <<"Argument ", key, " must be a string">>)
  ELSE IF schema.type = "number" /\ value.type # "number"
    THEN McpError(InvalidRequest, <<"Argument ", key, " must be a number">>)
  ELSE IF schema.type = "boolean" /\ value.type # "boolean"
    THEN McpError(InvalidRequest, <<"Argument ", key, " must be a boolean">>)
  ELSE IF schema.hasEnum /\ ~Includes(schema.enum, value)
    THEN McpError(InvalidRequest,
                  <<"Argument ", key, " must be one of: ">>
                  \o [i \in 1..Len(schema.enum) |-> schema.enum[i].tok])
  ELSE NoThrow

\* for (const required of schema.required): the first one missing throws.
RECURSIVE CheckRequired(_, _, _)
CheckRequired(required, args, i) ==
  IF i > Len(required) THEN NoThrow
  ELSE IF ~HasKey(args, required[i])
    THEN McpError(InvalidRequest, <<"Missing required argument: ", required[i]>>)
  ELSE CheckRequired(required, args, i + 1)

\* for (const [key, value] of Object.entries(args)): the first bad one throws.
RECURSIVE CheckEntries(_, _, _)
CheckEntries(schema, args, i) ==
  IF i > Len(args) THEN NoThrow
  ELSE LET p == PropertyIndex(schema.properties, args[i].key, 1)
           r == IF p = 0 THEN NoThrow
                ELSE validatePropertyType(args[i].key, args[i].value,
                                          schema.properties[p])
       IN IF r.threw THEN r ELSE CheckEntries(schema, args, i + 1)

validateToolArguments(tool, args) ==
  LET schema == tool.inputSchema
      missing == CheckRequired(schema.required, args, 1)
  IN IF missing.threw THEN missing ELSE CheckEntries(schema, args, 1)

\* The CallToolRequestSchema handler.
CallToolRequest(name, arguments) ==
  LET tool == getTool(name)
      args == ArgsOrEmpty(arguments)
      invalid == validateToolArguments(tool, args)
      settled == executeCommand(name)
      result == settled.value
  IN IF ~hasTool(name)
       THEN Response("error", InvalidRequest, <<"Unknown tool: ", name>>,
                     name, arguments, NoTool, Undefined, FALSE, FALSE)
     ELSE IF invalid.threw
       THEN Response("error", invalid.code, invalid.message,
                     name, arguments, tool, Undefined, FALSE, FALSE)
     ELSE IF settled.outcome = "rejected"
       THEN Response("error", InternalError,
                     <<"Tool execution failed: ">>,
                     name, arguments, tool, Undefined, TRUE, settled.invoked)
     ELSE Response("result", "", <<>>, name, arguments, tool,
                   Obj(result.content, Absent,
                       IF result.isError = JsTrue THEN JsTrue ELSE JsFalse,
                       Absent),
                   TRUE, settled.invoked)

\* ToolRegistry.initializeTools: registers the catalog, in order.
initializeTools(hCreate, hTap) ==
  /\ tools = <<>>
  /\ tools' =
       MapSet(MapSet(tools,
                     RegisteredTool("create_rn_simulator_session", "simulator",
                                    hCreate, CreateSessionSchema)),
              RegisteredTool("tap_coordinates", "ui-automation",
                             hTap, TapCoordinatesSchema))
  /\ UNCHANGED <<last, response, devices, activeSessions, nextSessionId, simLast,
               sessionObjects, appConfig, calls, idb>>

\* MCPServer.start connects the transport after initializeTools, so a
\* request is served against the initialised registry.
CallTool(name, arguments) ==
  /\ tools # <<>>
  /\ response' = CallToolRequest(name, arguments)
  /\ UNCHANGED <<tools, last, devices, activeSessions, nextSessionId, simLast,
               sessionObjects, appConfig, calls, idb>>

(***************************************************************************)
(* SimulatorManager: device enumeration and the session store.             *)
(* `devices` is what `xcrun simctl list devices available --json` reports, *)
(* one entry per device in Object.entries order, each with its runtime     *)
(* key.  activeSessions is the Map of sessions in insertion order.         *)
(***************************************************************************)
SimDevice(u, n, r, st) == [udid |-> u, name |-> n, runtime |-> r, state |-> st]

iOS17 == <<"com.apple.CoreSimulator.SimRuntime.", "iOS", "-17-0">>
iOS18 == <<"com.apple.CoreSimulator.SimRuntime.", "iOS", "-18-0">>
tvOS17 == <<"com.apple.CoreSimulator.SimRuntime.", "tvOS", "-17-0">>

DevicePool ==
  { SimDevice("U1", <<"iPhone", " 15">>, iOS17, "Shutdown"),
    SimDevice("U2", <<"iPhone", " 15", " Pro">>, iOS18, "Shutdown"),
    SimDevice("U3", <<"iPhone", " 15">>, tvOS17, "Shutdown"),
    SimDevice("U4", <<"iPad", " Air">>, iOS17, "Booted") }

RECURSIVE DeviceLists(_)
DeviceLists(n) ==
  IF n = 0 THEN {<<>>}
  ELSE LET shorter == DeviceLists(n - 1) IN
       shorter \cup
       {Append(l, d) :
          l \in {m \in shorter : Len(m) = n - 1},
          d \in DevicePool}

DistinctDeviceLists ==
  {l \in DeviceLists(MaxDevices) :
     \A i, j \in 1..Len(l) : l[i].udid = l[j].udid => i = j}

\* String.prototype.includes on token strings: needle occurs contiguously.
StrIncludes(hay, needle) ==
  \E i \in 0..Len(hay) :
    /\ i + Len(needle) <= Len(hay)
    /\ SubSeq(hay, i + 1, i + Len(needle)) = needle

RECURSIVE LastIndexOfToken(_, _, _)
LastIndexOfToken(str, tok, i) ==
  IF i = 0 THEN 0
  ELSE IF str[i] = tok THEN i
  ELSE LastIndexOfToken(str, tok, i - 1)

\* runtime.replace(/^.*iOS\s?/, "") || "Unknown"
RuntimeVersion(runtime) ==
  LET i == LastIndexOfToken(runtime, "iOS", Len(runtime))
      rest == SubSeq(runtime, i + 1, Len(runtime))
  IN IF rest = <<>> THEN <<"Unknown">> ELSE rest

SimulatorInfo(d) ==
  [udid |-> d.udid, name |-> d.name, state |-> d.state, runtime |-> d.runtime,
   platform |-> "iOS", version |-> RuntimeVersion(d.runtime)]

\* The parse loop of listAvailableSimulators: the devices of iOS runtimes.
RECURSIVE ParseDevices(_, _)
ParseDevices(list, i) ==
  IF i > Len(list) THEN <<>>
  ELSE IF StrIncludes(list[i].runtime, <<"iOS">>)
    THEN <<SimulatorInfo(list[i])>> \o ParseDevices(list, i + 1)
  ELSE ParseDevices(list, i + 1)

listAvailableSimulators == ParseDevices(devices, 1)

\* RNSimulatorConfig: deviceType, and iosVersion when given.
SimConfig(dt, given, ver) ==
  [deviceType |-> dt, iosVersionGiven |-> given, iosVersion |-> ver]

SimConfigs ==
  { SimConfig(dt, FALSE, <<>>) :
      dt \in {<<"iPhone", " 15">>, <<"iPhone", " 15", " Pro">>, <<"iPad", " Pro">>} }
  \cup
  { SimConfig(dt, TRUE, ver) :
      dt \in {<<"iPhone", " 15">>, <<"iPad", " Air">>},
      ver \in {<<"-18-0">>, <<"-17-0">>, <<>>} }

\* The predicate of availableSimulators.find in createSimulatorSession.
\* An empty iosVersion is falsy.
MatchesConfig(sim, config) ==
  /\ StrIncludes(sim.name, config.deviceType)
  /\ IF config.iosVersionGiven /\ config.iosVersion # <<>>
       THEN StrIncludes(sim.version, config.iosVersion)
       ELSE TRUE

\* A find that keeps the last match.
RECURSIVE FindLastIndex(_, _, _)
FindLastIndex(sims, config, i) ==
  IF i = 0 THEN 0
  ELSE IF MatchesConfig(sims[i], config) THEN i
  ELSE FindLastIndex(sims, config, i - 1)

FindSimulatorLast(sims, config) == FindLastIndex(sims, config, Len(sims))

\* Array.prototype.find: index of the first match, 0 when there is none.
RECURSIVE FindIndex(_, _, _)
FindIndex(sims, config, i) ==
  IF i > Len(sims) THEN 0
  ELSE IF MatchesConfig(sims[i], config) THEN i
  ELSE FindIndex(sims, config, i + 1)

FindSimulator(sims, config) == FindIndex(sims, config, 1)

SimulatorSession(id, udid, name, state) ==
  [id |-> id, udid |-> udid, name |-> name, state |-> state]

NoSession == SimulatorSession(0, "", <<>>, "")

getAllSessions == activeSessions

\* Map.get on the session store.
SessionGet(store, sessionId) ==
  IF \E i \in 1..Len(store) : store[i].id = sessionId
  THEN store[CHOOSE i \in 1..Len(store) : store[i].id = sessionId]
  ELSE NoSession

getSimulatorSession(sessionId) == SessionGet(activeSessions, sessionId)

SimCall(op, config, enumerated, available, ok, error, sessionId) ==
  [op |-> op, config |-> config, enumerated |-> enumerated,
   available |-> available, ok |-> ok, error |-> error,
   sessionId |-> sessionId]

NoSimCall ==
  SimCall("none", SimConfig(<<>>, FALSE, <<>>), FALSE, <<>>, FALSE, <<>>, 0)

\* What createSimulatorSession(config) comes to.  enumerationOk is whether
\* the simctl invocation of listAvailableSimulators succeeded; uuidv4() is
\* the next unused identifier.
createSessionOutcome(config, enumerationOk) ==
  LET available == listAvailableSimulators
      target == FindSimulator(available, config)
  IN IF ~enumerationOk
       THEN SimCall("createSimulatorSession", config, FALSE, <<>>, FALSE,
                    <<"Failed to list simulators: ">>, 0)
     ELSE IF target = 0
       THEN SimCall("createSimulatorSession", config, TRUE, available, FALSE,
                    <<"No simulator found matching device type: ">>
                    \o config.deviceType, 0)
     ELSE SimCall("createSimulatorSession", config, TRUE, available, TRUE,
                  <<>>, nextSessionId)

\* this.activeSessions.set(sessionId, session) with the new session object,
\* when a simulator was found.
storeSession(outcome) ==
  IF outcome.ok
  THEN LET target == FindSimulator(outcome.available, outcome.config)
       IN /\ activeSessions' =
               Append(activeSessions,
                      SimulatorSession(nextSessionId,
                                       outcome.available[target].udid,
                                       outcome.available[target].name,
                                       "inactive"))
          /\ sessionObjects' = Append(sessionObjects, "inactive")
          /\ nextSessionId' = nextSessionId + 1
  ELSE UNCHANGED <<activeSessions, nextSessionId, sessionObjects>>

\* createSimulatorSession(config), called on the manager itself.
createSimulatorSession(config, enumerationOk) ==
  /\ nextSessionId <= MaxSessions
  /\ simLast' = createSessionOutcome(config, enumerationOk)
  /\ storeSession(createSessionOutcome(config, enumerationOk))
  /\ UNCHANGED <<tools, last, response, devices, appConfig, calls, idb>>

(***************************************************************************)
(* The idb process executor (IDBManager): executeCommand on child_process  *)
(* exec, executeCommandWithRetry around it, and executeCommandWithSpawn on *)
(* child_process spawn with its three callbacks.  What the child process   *)
(* does (its exit code, its output, a signal, the timer) is an input.      *)
(***************************************************************************)

\* idbConfig.retryAttempts at its largest.
RetryAttempts == 2

\* The chunks of output a spawned child delivers at most.
MaxChunks == 1

Num(toks) == Prim("number", toks)

CommandResult(success, stdout, stderr, exitCode) ==
  [success |-> success, stdout |-> stdout, stderr |-> stderr,
   exitCode |-> exitCode]

Whitespace == {" ", "\n"}

\* String.prototype.trim on a string of tokens.
RECURSIVE TrimStart(_)
TrimStart(s) ==
  IF s # <<>> /\ Head(s) \in Whitespace THEN TrimStart(Tail(s)) ELSE s

RECURSIVE TrimEnd(_)
TrimEnd(s) ==
  IF s # <<>> /\ s[Len(s)] \in Whitespace
  THEN TrimEnd(SubSeq(s, 1, Len(s) - 1)) ELSE s

Trim(s) == TrimEnd(TrimStart(s))

\* a || b on strings
OrString(a, b) == IF a # <<>> THEN a ELSE b

\* a || b on values
OrValue(a, b) == IF Truthy(a) THEN a ELSE b

\* What execAsync settles to: { stdout, stderr } when the command exited
\* with 0, otherwise the Error of child_process.exec with its code (the exit
\* code, null after a signal, the name of a system error), its killed flag
\* (set when exec's own timeout killed the child) and the output so far.
ExecRun(cause, code, killed, stdout, stderr) ==
  [cause |-> cause, code |-> code, killed |-> killed, stdout |-> stdout,
   stderr |-> stderr, message |-> <<"Command failed: idb ">> \o stderr]

Outputs == {<<>>, <<"text", "\n">>}

ExecRuns ==
  {ExecRun("exit", c, FALSE, o, e) :
     c \in {Num(<<"0">>), Num(<<"1">>)}, o \in Outputs, e \in Outputs}
  \cup {ExecRun("signal", Null, FALSE, <<>>, e) : e \in Outputs}
  \cup {ExecRun("timeout", Null, TRUE, <<>>, e) : e \in Outputs}
  \cup {ExecRun("spawnError", Prim("string", <<"EAGAIN">>), FALSE, <<>>, <<>>)}

ExecResolves(run) == run.cause = "exit" /\ run.code = Num(<<"0">>)

\* executeCommand: the try block and the catch block.
idbExecuteCommand(run) ==
  IF ExecResolves(run)
  THEN CommandResult(TRUE, Trim(run.stdout), Trim(run.stderr), Num(<<"0">>))
  ELSE CommandResult(FALSE, OrString(run.stdout, <<>>),
                     OrString(run.stderr, OrString(run.message, <<>>)),
                     OrValue(run.code, Num(<<"1">>)))

\* The for loop of executeCommandWithRetry from one attempt on.  runs[i] is
\* what the i-th executeCommand meets; the log has one entry for every
\* executeCommand and for every delay(retryDelay).
RECURSIVE retryLoop(_, _, _, _)
retryLoop(runs, k, attempt, acc) ==
  IF attempt > k + 1 THEN acc
  ELSE LET lastResult == idbExecuteCommand(runs[attempt])
           invoked == [lastResult |-> <<lastResult>>,
                       log |-> Append(acc.log, "executeCommand")]
       IN IF lastResult.success THEN invoked
          ELSE IF attempt <= k
            THEN retryLoop(runs, k, attempt + 1,
                           [invoked EXCEPT !.log = Append(@, "delay")])
          ELSE retryLoop(runs, k, attempt + 1, invoked)

\* A loop that sleeps after every failure.
executeCommandWithRetryEager(runs, k) ==
  LET r == retryLoop(runs, k, 1, [lastResult |-> <<>>, log |-> <<>>])
  IN IF r.lastResult # <<>> /\ ~r.lastResult[1].success
     THEN [r EXCEPT !.log = Append(@, "delay")]
     ELSE r

executeCommandWithRetry(runs, k) ==
  retryLoop(runs, k, 1, [lastResult |-> <<>>, log |-> <<>>])

\* The runs a companion connect meets when its first `failures` attempts
\* fail.
ConnectRuns(failures) ==
  [i \in 1..(RetryAttempts + 1) |->
     IF i <= failures
     THEN ExecRun("exit", Num(<<"1">>), FALSE, <<>>, <<>>)
     ELSE ExecRun("exit", Num(<<"0">>), FALSE, <<>>, <<>>)]

Count(log, entry) == Cardinality({i \in 1..Len(log) : log[i] = entry})

\* How many of the attempts of a companion connect fail.
ConnectFailures == 0..(RetryAttempts + 1)

\* connectToTarget: executeCommandWithRetry(["connect", udid]), and an Error
\* when the result is a failure.
connectToTarget(failures) ==
  LET r == executeCommandWithRetry(ConnectRuns(failures), RetryAttempts)
  IN [ok |-> r.lastResult[1].success,
      invocations |-> Count(r.log, "executeCommand")]

\* The state of the executor: the call in hand, its inputs, the promise it
\* returned, and for a spawned child the timer and the callbacks that ran.
IdbCall(op, runs, k) ==
  [op |-> op, runs |-> runs, k |-> k, settled |-> "pending", result |-> <<>>,
   log |-> <<>>, timer |-> "none", killed |-> FALSE, first |-> "none",
   fired |-> {}, stdout |-> <<>>, stderr |-> <<>>, chunks |-> 0]

IdbIdle == IdbCall("none", <<>>, 0)

idbFixed == <<tools, last, response, devices, activeSessions, nextSessionId,
              simLast, sessionObjects, appConfig, calls>>

IdbFinished == idb.op = "none" \/ idb.settled # "pending"

\* An executeCommand whose catch block rethrows.
ExecuteIdbCommandUncaught(run) ==
  /\ IdbFinished
  /\ idb' = [IdbCall("executeCommand", <<run>>, 0) EXCEPT
               !.settled = IF ExecResolves(run) THEN "resolved" ELSE "rejected",
               !.result = IF ExecResolves(run) THEN <<idbExecuteCommand(run)>>
                          ELSE <<>>]
  /\ UNCHANGED idbFixed

\* await executeCommand(args, timeout)
ExecuteIdbCommand(run) ==
  /\ IdbFinished
  /\ idb' = [IdbCall("executeCommand", <<run>>, 0) EXCEPT
               !.settled = "resolved",
               !.result = <<idbExecuteCommand(run)>>]
  /\ UNCHANGED idbFixed

\* await executeCommandWithRetry(args, timeout) with retryAttempts = k
ExecuteIdbCommandWithRetry(runs, k) ==
  /\ IdbFinished
  /\ LET r == executeCommandWithRetry(runs, k)
     IN idb' = [IdbCall("executeCommandWithRetry", runs, k) EXCEPT
                  !.settled = "resolved", !.result = r.lastResult,
                  !.log = r.log]
  /\ UNCHANGED idbFixed
TimedOut == <<"\n", "Command timed out">>
SpawnMessage == <<"spawn idb ENOENT">>

\* A resolve that replaces the value of a promise already settled.
ResolveAgain(s, callback, result) ==
  [s EXCEPT !.settled = "resolved", !.result = <<result>>,
            !.first = IF s.first = "none" THEN callback ELSE @,
            !.fired = @ \cup {callback}]

\* resolve(result) inside a callback: the first call settles the promise,
\* a later call changes nothing.
Resolve(s, callback, result) ==
  IF s.settled = "pending"
  THEN [s EXCEPT !.settled = "resolved", !.result = <<result>>,
                 !.first = callback, !.fired = @ \cup {callback}]
  ELSE [s EXCEPT !.fired = @ \cup {callback}]

\* if (timeoutId) clearTimeout(timeoutId)
ClearTimeout(s) ==
  [s EXCEPT !.timer = IF @ = "armed" THEN "cleared" ELSE @]

\* executeCommandWithSpawn(args, timeout) to the return of the promise:
\* spawn, and the timer when timeoutMs > 0.
ExecuteIdbCommandWithSpawn(timed) ==
  /\ IdbFinished
  /\ idb' = [IdbCall("executeCommandWithSpawn", <<>>, 0) EXCEPT
               !.timer = IF timed THEN "armed" ELSE "none"]
  /\ UNCHANGED idbFixed

\* child.stdout.on("data") and child.stderr.on("data")
SpawnData(stream, chunk) ==
  /\ idb.op = "executeCommandWithSpawn"
  /\ idb.chunks < MaxChunks
  /\ idb' = [idb EXCEPT !.chunks = @ + 1,
                        !.stdout = IF stream = "stdout" THEN @ \o chunk ELSE @,
                        !.stderr = IF stream = "stderr" THEN @ \o chunk ELSE @]
  /\ UNCHANGED idbFixed

\* The callback of setTimeout.
SpawnTimeout ==
  /\ idb.op = "executeCommandWithSpawn"
  /\ idb.timer = "armed"
  /\ idb' = Resolve([idb EXCEPT !.timer = "fired", !.killed = TRUE], "timeout",
                    CommandResult(FALSE, idb.stdout, idb.stderr \o TimedOut,
                                  Num(<<"-", "1">>)))
  /\ UNCHANGED idbFixed

\* exitCode: code || 0
ExitCode(code) == OrValue(code, Num(<<"0">>))

\* child.on("exit", (code) => ...): code is null when a signal ended the
\* child.
SpawnExit(code) ==
  /\ idb.op = "executeCommandWithSpawn"
  /\ "exit" \notin idb.fired
  /\ idb' = Resolve(ClearTimeout(idb), "exit",
                    CommandResult(code = Num(<<"0">>), Trim(idb.stdout),
                                  Trim(idb.stderr), ExitCode(code)))
  /\ UNCHANGED idbFixed

\* child.on("error", (error) => ...)
SpawnError ==
  /\ idb.op = "executeCommandWithSpawn"
  /\ "error" \notin idb.fired
  /\ idb' = Resolve(ClearTimeout(idb), "error",
                    CommandResult(FALSE, idb.stdout,
                                  idb.stderr \o <<"\n">> \o SpawnMessage,
                                  Num(<<"-", "1">>)))
  /\ UNCHANGED idbFixed

(***************************************************************************)
(* Simulator lifecycle.  Every asynchronous call of a caller is a record   *)
(* in calls: the method called, the await it is suspended at (pc), and its *)
(* locals.  One action is the code between two awaits.  The outcome of an  *)
(* external command (simctl, idb, osascript) is an input of the action.    *)
(***************************************************************************)
CallerIds == {"A", "B"}

\* simulatorConfig.timeout, counted in poll intervals of 1000 ms.
Timeout == 2

\* The part of the configuration the lifecycle reads or is said to read.
AppConfig(autoBootOnCreate, headless, timeout) ==
  [autoBootOnCreate |-> autoBootOnCreate, headless |-> headless,
   timeout |-> timeout]

\* RN_AUTO_BOOT and HEADLESS_MODE unset.
DefaultConfig == AppConfig(TRUE, FALSE, Timeout)

isHeadlessEnabled == appConfig.headless

Call(op, pc, udid, sessionId) ==
  [op |-> op, pc |-> pc, udid |-> udid, sessionId |-> sessionId,
   autoBoot |-> Undefined, initial |-> "", expected |-> "", elapsed |-> 0,
   issued |-> FALSE, commands |-> 0, polled |-> FALSE, observed |-> FALSE,
   disc |-> "none", connects |-> 0, connectFailed |-> FALSE, ok |-> FALSE, error |-> <<>>, ret |-> ""]

Idle == Call("none", "idle", "", 0)

Finished(c) == c.pc \in {"idle", "done"}

\* The call returns normally.
Return(c) == [c EXCEPT !.pc = "done", !.ok = TRUE, !.error = <<>>]

\* The call throws new Error(message), or rethrows it.
Throw(c, message) == [c EXCEPT !.pc = "done", !.ok = FALSE, !.error = message]

ListError == <<"Failed to list simulators: ">>
NotFoundError(udid) == <<"Simulator not found: ", udid>>
SessionNotFoundError(sessionId) == <<"Session not found: ", ToString(sessionId)>>
TimeoutError(udid, expectedState) ==
  <<"Timeout waiting for simulator ", udid, " to reach state: ", expectedState>>
ConnectError(udid) == <<"Failed to connect to target ", udid, ": ">>
CommandError(command, udid) == <<"Command failed: ", command, udid>>
NoFocusError == <<"No simulator to focus">>
HandlerError(message) == <<"Failed to create simulator session: ">> \o message

\* getSimulatorInfo(udid): the enumerated device with that udid, or null.
InfoIndex(sims, udid) ==
  IF \E i \in 1..Len(sims) : sims[i].udid = udid
  THEN CHOOSE i \in 1..Len(sims) :
         /\ sims[i].udid = udid
         /\ \A j \in 1..(i - 1) : sims[j].udid # udid
  ELSE 0

getSimulatorInfo(udid) ==
  LET sims == listAvailableSimulators
      i == InfoIndex(sims, udid)
  IN IF i = 0 THEN [found |-> FALSE, state |-> ""]
     ELSE [found |-> TRUE, state |-> sims[i].state]

\* The device with that udid takes a new state.
SetState(list, udid, st) ==
  [i \in 1..Len(list) |->
     IF list[i].udid = udid THEN [list[i] EXCEPT !.state = st] ELSE list[i]]

StateOf(list, udid) ==
  IF \E i \in 1..Len(list) : list[i].udid = udid
  THEN list[CHOOSE i \in 1..Len(list) : list[i].udid = udid].state
  ELSE ""

\* session.state = st on the session object, which the store holds by
\* reference for as long as the session is in it.
StoreSetState(store, sessionId, st) ==
  [i \in 1..Len(store) |->
     IF store[i].id = sessionId THEN [store[i] EXCEPT !.state = st]
     ELSE store[i]]

\* activeSessions.delete(sessionId)
StoreDelete(store, sessionId) ==
  LET F[i \in 0..Len(store)] ==
        IF i = 0 THEN <<>>
        ELSE IF store[i].id = sessionId THEN F[i - 1]
        ELSE Append(F[i - 1], store[i])
  IN F[Len(store)]

lifecycleFixed == <<tools, last, response, appConfig, idb>>

\* A rejection of a step reaches the caller: the create-session handler
\* turns it into an error result, every manager method rethrows it.
Fail(c, message) ==
  IF c.op = "create_rn_simulator_session"
  THEN Throw(c, HandlerError(message))
  ELSE Throw(c, message)

Rejects(a, message) ==
  /\ calls' = [calls EXCEPT ![a] = Fail(calls[a], message)]
  /\ UNCHANGED <<devices, activeSessions, sessionObjects>>

\* bootSimulatorByUDID resolves.  In the create-session handler the next
\* statement is session.state = "active", on the object the handler holds.
BootResolves(a, c) ==
  IF c.op = "create_rn_simulator_session"
  THEN /\ sessionObjects' = [sessionObjects EXCEPT ![c.sessionId] = "active"]
       /\ activeSessions' = StoreSetState(activeSessions, c.sessionId, "active")
       /\ calls' = [calls EXCEPT ![a] = Return(c)]
       /\ UNCHANGED devices
  ELSE /\ calls' = [calls EXCEPT ![a] = Return(c)]
       /\ UNCHANGED <<devices, activeSessions, sessionObjects>>

\* A shutdown that marks the sessions of the device inactive.
ShutdownResolvesMarking(a, c) ==
  /\ calls' = [calls EXCEPT ![a] =
                 IF c.op = "terminateSimulatorSession"
                 THEN [c EXCEPT !.pc = "cleanup"]
                 ELSE Return(c)]
  /\ activeSessions' =
       [i \in 1..Len(activeSessions) |->
          IF activeSessions[i].udid = c.udid
          THEN [activeSessions[i] EXCEPT !.state = "inactive"]
          ELSE activeSessions[i]]
  /\ UNCHANGED <<devices, sessionObjects>>

\* shutdownSimulatorByUDID resolves; terminateSimulatorSession goes on to
\* its own disconnect.
ShutdownResolves(a, c) ==
  /\ calls' = [calls EXCEPT ![a] =
                 IF c.op = "terminateSimulatorSession"
                 THEN [c EXCEPT !.pc = "cleanup"]
                 ELSE Return(c)]
  /\ UNCHANGED <<devices, activeSessions, sessionObjects>>

AutoBootValues ==
  {Undefined, Prim("boolean", <<"true">>), Prim("boolean", <<"false">>)}

\* shouldAutoBoot = args.autoBoot !== undefined ? args.autoBoot : true
shouldAutoBoot(autoBoot) ==
  IF autoBoot # Undefined THEN Truthy(autoBoot) ELSE TRUE

\* The create_rn_simulator_session handler, to the first await of the boot
\* it starts (or to its end when it starts none).
CreateSessionHandler(a, config, autoBoot, enumerationOk) ==
  /\ Finished(calls[a])
  /\ nextSessionId <= MaxSessions
  /\ LET outcome == createSessionOutcome(config, enumerationOk)
         session == SessionGet(activeSessions', outcome.sessionId)
         c == [Call("create_rn_simulator_session", "boot", session.udid,
                    outcome.sessionId) EXCEPT !.autoBoot = autoBoot]
     IN /\ storeSession(outcome)
        /\ calls' = [calls EXCEPT ![a] =
                       IF ~outcome.ok THEN Throw(c, HandlerError(outcome.error))
                       ELSE IF shouldAutoBoot(autoBoot) /\ session.state # "active"
                         THEN c
                       ELSE Return(c)]
  /\ UNCHANGED <<devices, simLast, lifecycleFixed>>

\* bootSimulatorByUDID(udid) is called.
BootSimulator(a, udid) ==
  /\ Finished(calls[a])
  /\ calls' = [calls EXCEPT ![a] = Call("bootSimulatorByUDID", "boot", udid, 0)]
  /\ UNCHANGED <<devices, activeSessions, sessionObjects, nextSessionId,
                 simLast, lifecycleFixed>>

\* A lookup that boots whatever it finds.
BootLookupAlways(a, enumerationOk) ==
  /\ calls[a].pc = "boot"
  /\ LET c == calls[a]
         info == getSimulatorInfo(c.udid)
     IN IF ~enumerationOk THEN Rejects(a, ListError)
        ELSE IF ~info.found THEN Rejects(a, NotFoundError(c.udid))
        ELSE /\ calls' = [calls EXCEPT ![a] =
                            [c EXCEPT !.pc = "bootCommand",
                                      !.initial = info.state]]
             /\ UNCHANGED <<devices, activeSessions, sessionObjects>>
  /\ UNCHANGED <<nextSessionId, simLast, lifecycleFixed>>

\* bootSimulatorByUDID: getSimulatorInfo and the two early exits.
BootLookup(a, enumerationOk) ==
  /\ calls[a].pc = "boot"
  /\ LET c == calls[a]
         info == getSimulatorInfo(c.udid)
     IN IF ~enumerationOk THEN Rejects(a, ListError)
        ELSE IF ~info.found THEN Rejects(a, NotFoundError(c.udid))
        ELSE IF info.state = "Booted"
          THEN BootResolves(a, [c EXCEPT !.initial = info.state])
        ELSE /\ calls' = [calls EXCEPT ![a] =
                            [c EXCEPT !.pc = "bootCommand",
                                      !.initial = info.state]]
             /\ UNCHANGED <<devices, activeSessions, sessionObjects>>
  /\ UNCHANGED <<nextSessionId, simLast, lifecycleFixed>>

\* A boot command that is issued again after it failed.
BootCommandRetried(a, commandOk) ==
  /\ calls[a].pc = "bootCommand"
  /\ LET c == [calls[a] EXCEPT !.issued = TRUE, !.commands = @ + 1]
     IN IF commandOk /\ StateOf(devices, c.udid) = "Shutdown"
        THEN /\ \E st \in {"Booting", "Booted"} :
                  devices' = SetState(devices, c.udid, st)
             /\ calls' = [calls EXCEPT ![a] =
                            [c EXCEPT !.pc = "wait", !.expected = "Booted",
                                      !.elapsed = 0]]
             /\ UNCHANGED <<activeSessions, sessionObjects>>
        ELSE /\ calls' = [calls EXCEPT ![a] =
                            IF c.commands <= RetryAttempts THEN c
                            ELSE Fail(c, CommandError("xcrun simctl boot ", c.udid))]
             /\ UNCHANGED <<devices, activeSessions, sessionObjects>>
  /\ UNCHANGED <<nextSessionId, simLast, lifecycleFixed>>

\* xcrun simctl boot <udid>: it can succeed on a device that is shut down,
\* which is then booting or already booted, and it can fail on any device.
BootCommand(a, commandOk) ==
  /\ calls[a].pc = "bootCommand"
  /\ LET c == [calls[a] EXCEPT !.issued = TRUE, !.commands = @ + 1]
     IN IF commandOk /\ StateOf(devices, c.udid) = "Shutdown"
        THEN /\ \E st \in {"Booting", "Booted"} :
                  devices' = SetState(devices, c.udid, st)
             /\ calls' = [calls EXCEPT ![a] =
                            [c EXCEPT !.pc = "wait", !.expected = "Booted",
                                      !.elapsed = 0]]
             /\ UNCHANGED <<activeSessions, sessionObjects>>
        ELSE /\ calls' = [calls EXCEPT ![a] =
                            Fail(c, CommandError("xcrun simctl boot ", c.udid))]
             /\ UNCHANGED <<devices, activeSessions, sessionObjects>>
  /\ UNCHANGED <<nextSessionId, simLast, lifecycleFixed>>

\* A wait that gives up silently when the time is over.
WaitPollNoThrow(a, enumerationOk) ==
  /\ calls[a].pc = "wait"
  /\ LET c == calls[a]
         info == getSimulatorInfo(c.udid)
         seen == [c EXCEPT !.polled = TRUE, !.observed = info.state = c.expected]
     IN IF c.elapsed >= appConfig.timeout \/ (enumerationOk /\ info.state = c.expected)
        THEN IF c.expected = "Booted"
             THEN /\ calls' = [calls EXCEPT ![a] = [seen EXCEPT !.pc = "connect"]]
                  /\ UNCHANGED <<devices, activeSessions, sessionObjects>>
             ELSE ShutdownResolves(a, seen)
        ELSE IF ~enumerationOk THEN Rejects(a, ListError)
        ELSE /\ calls' = [calls EXCEPT ![a] =
                            [c EXCEPT !.polled = TRUE, !.elapsed = c.elapsed + 1]]
             /\ UNCHANGED <<devices, activeSessions, sessionObjects>>
  /\ UNCHANGED <<nextSessionId, simLast, lifecycleFixed>>

\* One turn of the loop of waitForSimulatorState: the test of the elapsed
\* time, getSimulatorInfo, the comparison, and the sleep of 1000 ms.
WaitPoll(a, enumerationOk) ==
  /\ calls[a].pc = "wait"
  /\ LET c == calls[a]
         info == getSimulatorInfo(c.udid)
         seen == [c EXCEPT !.polled = TRUE, !.observed = TRUE]
     IN IF c.elapsed >= appConfig.timeout
          THEN Rejects(a, TimeoutError(c.udid, c.expected))
        ELSE IF ~enumerationOk THEN Rejects(a, ListError)
        ELSE IF info.state = c.expected
          THEN IF c.expected = "Booted"
               THEN /\ calls' = [calls EXCEPT ![a] = [seen EXCEPT !.pc = "connect"]]
                    /\ UNCHANGED <<devices, activeSessions, sessionObjects>>
               ELSE ShutdownResolves(a, seen)
        ELSE /\ calls' = [calls EXCEPT ![a] =
                            [c EXCEPT !.polled = TRUE, !.elapsed = c.elapsed + 1]]
             /\ UNCHANGED <<devices, activeSessions, sessionObjects>>
  /\ UNCHANGED <<nextSessionId, simLast, lifecycleFixed>>

\* await idb.connectToTarget(udid) at the end of bootSimulatorByUDID:
\* connectToTarget throws when the command failed after its retries.
Connect(a, failures) ==
  /\ calls[a].pc = "connect"
  /\ LET connected == connectToTarget(failures)
         c == [calls[a] EXCEPT !.connectFailed = ~connected.ok,
                               !.connects = connected.invocations]
     IN IF connected.ok THEN BootResolves(a, c)
        ELSE /\ calls' = [calls EXCEPT ![a] = Fail(c, ConnectError(c.udid))]
             /\ UNCHANGED <<devices, activeSessions, sessionObjects>>
  /\ UNCHANGED <<nextSessionId, simLast, lifecycleFixed>>

\* shutdownSimulatorByUDID(udid) is called.
ShutdownSimulator(a, udid) ==
  /\ Finished(calls[a])
  /\ calls' = [calls EXCEPT ![a] =
                 Call("shutdownSimulatorByUDID", "disconnect", udid, 0)]
  /\ UNCHANGED <<devices, activeSessions, sessionObjects, nextSessionId,
                 simLast, lifecycleFixed>>

\* await idb.disconnectFromTarget(udid): a failure is logged, never thrown.
Disconnect(a, disconnectOk) ==
  /\ calls[a].pc = "disconnect"
  /\ calls' = [calls EXCEPT ![a] =
                 [calls[a] EXCEPT !.pc = "shutdownCommand",
                                  !.disc = IF disconnectOk THEN "ok" ELSE "failed"]]
  /\ UNCHANGED <<devices, activeSessions, sessionObjects, nextSessionId,
                 simLast, lifecycleFixed>>

\* A shutdown that sends the command before it disconnects.
ShutdownCommandFirst(a, commandOk) ==
  /\ calls[a].pc \in {"disconnect", "shutdownCommand"}
  /\ LET c == [calls[a] EXCEPT !.issued = TRUE, !.commands = @ + 1]
     IN IF commandOk /\ StateOf(devices, c.udid) \in {"Booted", "Booting"}
        THEN /\ \E st \in {"Shutting Down", "Shutdown"} :
                  devices' = SetState(devices, c.udid, st)
             /\ calls' = [calls EXCEPT ![a] =
                            [c EXCEPT !.pc = "wait", !.expected = "Shutdown",
                                      !.elapsed = 0]]
             /\ UNCHANGED <<activeSessions, sessionObjects>>
        ELSE /\ calls' = [calls EXCEPT ![a] =
                            Fail(c, CommandError("xcrun simctl shutdown ", c.udid))]
             /\ UNCHANGED <<devices, activeSessions, sessionObjects>>
  /\ UNCHANGED <<nextSessionId, simLast, lifecycleFixed>>

\* xcrun simctl shutdown <udid>: it can succeed on a device that is booted
\* or booting, and it can fail on any device.
ShutdownCommand(a, commandOk) ==
  /\ calls[a].pc = "shutdownCommand"
  /\ LET c == [calls[a] EXCEPT !.issued = TRUE, !.commands = @ + 1]
     IN IF commandOk /\ StateOf(devices, c.udid) \in {"Booted", "Booting"}
        THEN /\ \E st \in {"Shutting Down", "Shutdown"} :
                  devices' = SetState(devices, c.udid, st)
             /\ calls' = [calls EXCEPT ![a] =
                            [c EXCEPT !.pc = "wait", !.expected = "Shutdown",
                                      !.elapsed = 0]]
             /\ UNCHANGED <<activeSessions, sessionObjects>>
        ELSE /\ calls' = [calls EXCEPT ![a] =
                            Fail(c, CommandError("xcrun simctl shutdown ", c.udid))]
             /\ UNCHANGED <<devices, activeSessions, sessionObjects>>
  /\ UNCHANGED <<nextSessionId, simLast, lifecycleFixed>>

\* A terminate that treats an unknown session as nothing to do.
TerminateSessionLenient(a, sessionId) ==
  /\ Finished(calls[a])
  /\ LET session == getSimulatorSession(sessionId)
         c == Call("terminateSimulatorSession", "terminate", session.udid,
                   sessionId)
     IN calls' = [calls EXCEPT ![a] =
                    IF session = NoSession THEN Return(c) ELSE c]
  /\ UNCHANGED <<devices, activeSessions, sessionObjects, nextSessionId,
                 simLast, lifecycleFixed>>

\* terminateSimulatorSession(sessionId) is called: the lookup in the store.
TerminateSession(a, sessionId) ==
  /\ Finished(calls[a])
  /\ LET session == getSimulatorSession(sessionId)
         c == Call("terminateSimulatorSession", "terminate", session.udid,
                   sessionId)
     IN calls' = [calls EXCEPT ![a] =
                    IF session = NoSession
                    THEN Throw(c, SessionNotFoundError(sessionId))
                    ELSE c]
  /\ UNCHANGED <<devices, activeSessions, sessionObjects, nextSessionId,
                 simLast, lifecycleFixed>>

\* A terminate that removes the session when the enumeration fails.
TerminateLookupFinally(a, enumerationOk) ==
  /\ calls[a].pc = "terminate"
  /\ LET c == calls[a]
         info == getSimulatorInfo(c.udid)
     IN IF ~enumerationOk
        THEN /\ calls' = [calls EXCEPT ![a] = Fail(c, ListError)]
             /\ activeSessions' = StoreDelete(activeSessions, c.sessionId)
             /\ UNCHANGED <<devices, sessionObjects>>
        ELSE /\ calls' = [calls EXCEPT ![a] =
                            [c EXCEPT !.initial = info.state,
                                      !.pc = IF info.found /\ info.state = "Booted"
                                             THEN "disconnect" ELSE "cleanup"]]
             /\ UNCHANGED <<devices, activeSessions, sessionObjects>>
  /\ UNCHANGED <<nextSessionId, simLast, lifecycleFixed>>

\* terminateSimulatorSession: getSimulatorInfo(session.udid); a booted
\* device is shut down first.
TerminateLookup(a, enumerationOk) ==
  /\ calls[a].pc = "terminate"
  /\ LET c == calls[a]
         info == getSimulatorInfo(c.udid)
     IN IF ~enumerationOk THEN Rejects(a, ListError)
        ELSE /\ calls' = [calls EXCEPT ![a] =
                            [c EXCEPT !.initial = info.state,
                                      !.pc = IF info.found /\ info.state = "Booted"
                                             THEN "disconnect" ELSE "cleanup"]]
             /\ UNCHANGED <<devices, activeSessions, sessionObjects>>
  /\ UNCHANGED <<nextSessionId, simLast, lifecycleFixed>>

\* terminateSimulatorSession: the disconnect, session.state = "terminated"
\* and activeSessions.delete(sessionId).
Cleanup(a, disconnectOk) ==
  /\ calls[a].pc = "cleanup"
  /\ LET c == calls[a]
     IN /\ sessionObjects' = [sessionObjects EXCEPT ![c.sessionId] = "terminated"]
        /\ activeSessions' = StoreDelete(activeSessions, c.sessionId)
        /\ calls' = [calls EXCEPT ![a] = Return(c)]
  /\ UNCHANGED <<devices, nextSessionId, simLast, lifecycleFixed>>

\* The last booted device of a list, "" for none.
LastBooted(sims) ==
  LET F[i \in 0..Len(sims)] ==
        IF i = 0 THEN ""
        ELSE IF sims[i].state = "Booted" THEN sims[i].udid
        ELSE F[i - 1]
  IN F[Len(sims)]

\* allSimulators.filter(sim => sim.state === "Booted")[0] || null: the udid
\* of the first booted device of a list, "" for null.
FirstBooted(sims) ==
  LET F[i \in 0..Len(sims)] ==
        IF i = Len(sims) THEN ""
        ELSE IF sims[i + 1].state = "Booted" THEN sims[i + 1].udid
        ELSE F[i + 1]
  IN F[0]

\* focusSimulator after targetUdid is known.
FocusTarget(c, targetUdid) ==
  IF targetUdid = "" THEN Throw(c, NoFocusError)
  ELSE IF isHeadlessEnabled THEN Return(c)
  ELSE [c EXCEPT !.pc = "activate"]

\* getCurrentSimulator resolves to the device with udid ret, or to null.
CurrentResolves(c, ret) ==
  IF c.op = "focusSimulator" THEN FocusTarget([c EXCEPT !.ret = ret], ret)
  ELSE Return([c EXCEPT !.ret = ret])

\* getCurrentSimulator() is called.
GetCurrentSimulator(a) ==
  /\ Finished(calls[a])
  /\ calls' = [calls EXCEPT ![a] = Call("getCurrentSimulator", "list", "", 0)]
  /\ UNCHANGED <<devices, activeSessions, sessionObjects, nextSessionId,
                 simLast, lifecycleFixed>>

\* A lookup that keeps the device another call has already been given.
ListBootedPinned(a, enumerationOk) ==
  /\ calls[a].pc = "list"
  /\ LET c == calls[a]
         pinned == {calls[b].ret : b \in CallerIds \ {a}} \ {""}
         current == IF pinned # {} THEN CHOOSE u \in pinned : TRUE
                    ELSE FirstBooted(listAvailableSimulators)
     IN calls' = [calls EXCEPT ![a] =
                    IF ~enumerationOk THEN Fail(c, ListError)
                    ELSE IF current = "" THEN CurrentResolves(c, "")
                    ELSE [c EXCEPT !.pc = "ensure", !.ret = current]]
  /\ UNCHANGED <<devices, activeSessions, sessionObjects, nextSessionId,
                 simLast, lifecycleFixed>>

\* listBootedSimulators: the enumeration and the filter.  With no booted
\* device nothing is awaited any more.
ListBooted(a, enumerationOk) ==
  /\ calls[a].pc = "list"
  /\ LET c == calls[a]
         current == FirstBooted(listAvailableSimulators)
     IN calls' = [calls EXCEPT ![a] =
                    IF ~enumerationOk THEN Fail(c, ListError)
                    ELSE IF current = "" THEN CurrentResolves(c, "")
                    ELSE [c EXCEPT !.pc = "ensure", !.ret = current]]
  /\ UNCHANGED <<devices, activeSessions, sessionObjects, nextSessionId,
                 simLast, lifecycleFixed>>

\* ensureIDBConnection for the booted devices and for the current one: a
\* failure of connectToTarget is caught and logged.
EnsureConnections(a, failures) ==
  /\ calls[a].pc = "ensure"
  /\ LET c == [calls[a] EXCEPT !.connectFailed = ~connectToTarget(failures).ok]
     IN calls' = [calls EXCEPT ![a] = CurrentResolves(c, c.ret)]
  /\ UNCHANGED <<devices, activeSessions, sessionObjects, nextSessionId,
                 simLast, lifecycleFixed>>

\* focusSimulator(udid) is called; "" is no udid (an empty one is falsy).
FocusSimulator(a, udid) ==
  /\ Finished(calls[a])
  /\ LET c == Call("focusSimulator", "list", udid, 0)
     IN calls' = [calls EXCEPT ![a] =
                    IF udid # "" THEN FocusTarget(c, udid) ELSE c]
  /\ UNCHANGED <<devices, activeSessions, sessionObjects, nextSessionId,
                 simLast, lifecycleFixed>>

\* osascript -e 'tell application "Simulator" to activate'
Activate(a, commandOk) ==
  /\ calls[a].pc = "activate"
  /\ LET c == [calls[a] EXCEPT !.issued = TRUE, !.commands = @ + 1]
     IN calls' = [calls EXCEPT ![a] =
                    IF commandOk THEN Return(c)
                    ELSE Throw(c, CommandError("osascript", ""))]
  /\ UNCHANGED <<devices, activeSessions, sessionObjects, nextSessionId,
                 simLast, lifecycleFixed>>

\* The simulator itself: a booting device becomes booted, a device that is
\* shutting down becomes shut down.
DeviceProgress(udid) ==
  /\ StateOf(devices, udid) \in {"Booting", "Shutting Down"}
  /\ devices' = SetState(devices, udid,
                         IF StateOf(devices, udid) = "Booting"
                         THEN "Booted" ELSE "Shutdown")
  /\ UNCHANGED <<activeSessions, sessionObjects, calls, nextSessionId,
                 simLast, lifecycleFixed>>

(***************************************************************************)
(* Specifications                                                          *)
(***************************************************************************)
Init ==
  /\ tools = <<>>
  /\ last = NoCall
  /\ response = NoResponse
  /\ devices = <<>>
  /\ activeSessions = <<>>
  /\ nextSessionId = 1
  /\ simLast = NoSimCall
  /\ sessionObjects = <<>>
  /\ appConfig = DefaultConfig
  /\ idb = IdbIdle
  /\ calls = [a \in CallerIds |-> Idle]

Next ==
  \/ \E tool \in RegistryToolSpecs : registerTool(tool)
  \/ \E name \in ToolNames : unregisterTool(name)
  \/ \E name \in ToolNames : ExecuteCommand(name)

Spec == Init /\ [][Next]_vars

(***************************************************************************)
(* Result normalisation: the registry holds tools whose handlers resolve   *)
(* to every shape of value, and the router executes them.                  *)
(***************************************************************************)
FormatNames == {"a", "b"}

FormatToolSpecs ==
  {RegisteredTool(n, "simulator", h, NoSchema) :
     n \in FormatNames, h \in AllHandlers}

NextFormat ==
  \/ \E tool \in FormatToolSpecs : registerTool(tool)
  \/ \E name \in FormatNames : unregisterTool(name)
  \/ \E name \in FormatNames : ExecuteCommand(name)

SpecFormat == Init /\ [][NextFormat]_vars

NextFrontDoor ==
  \/ \E hCreate, hTap \in FrontDoorHandlers : initializeTools(hCreate, hTap)
  \/ \E name \in RequestNames, arguments \in RequestArguments :
       CallTool(name, arguments)

SpecFrontDoor == Init /\ [][NextFrontDoor]_vars

InitSim ==
  /\ tools = <<>>
  /\ last = NoCall
  /\ response = NoResponse
  /\ devices \in DistinctDeviceLists
  /\ activeSessions = <<>>
  /\ nextSessionId = 1
  /\ simLast = NoSimCall
  /\ sessionObjects = <<>>
  /\ appConfig = DefaultConfig
  /\ idb = IdbIdle
  /\ calls = [a \in CallerIds |-> Idle]

NextSim ==
  \E config \in SimConfigs, enumerationOk \in BOOLEAN :
    createSimulatorSession(config, enumerationOk)

SpecSim == InitSim /\ [][NextSim]_vars

(***************************************************************************)
(* Simulator lifecycle: one caller makes every call of SimulatorManager,   *)
(* one after the other, under the default configuration; the outcome of    *)
(* every external command and the progress of the devices are free.        *)
(***************************************************************************)
LifecycleDeviceLists ==
  {l \in DistinctDeviceLists :
     /\ l # <<>>
     /\ \A i \in 1..Len(l) : l[i].udid \in {"U1", "U4"}}

\* The udids callers pass: two of the pool, and one no device has.
LifecycleUdids == {"U1", "U4", "U9"}

LifecycleConfigs ==
  {c \in SimConfigs :
     \/ ~c.iosVersionGiven /\ c.deviceType \in {<<"iPhone", " 15">>, <<"iPad", " Pro">>}
     \/ c.iosVersionGiven /\ c.deviceType = <<"iPad", " Air">> /\ c.iosVersion = <<>>}

SessionIds == 1..MaxSessions

SoleCaller == {"A"}

InitLifecycle ==
  /\ tools = <<>>
  /\ last = NoCall
  /\ response = NoResponse
  /\ devices \in LifecycleDeviceLists
  /\ activeSessions = <<>>
  /\ nextSessionId = 1
  /\ simLast = NoSimCall
  /\ sessionObjects = <<>>
  /\ appConfig = DefaultConfig
  /\ idb = IdbIdle
  /\ calls = [a \in CallerIds |-> Idle]

NextLifecycle ==
  \/ \E a \in SoleCaller, config \in LifecycleConfigs, autoBoot \in AutoBootValues,
        enumerationOk \in BOOLEAN :
       CreateSessionHandler(a, config, autoBoot, enumerationOk)
  \/ \E a \in SoleCaller, udid \in LifecycleUdids : BootSimulator(a, udid)
  \/ \E a \in SoleCaller, enumerationOk \in BOOLEAN : BootLookup(a, enumerationOk)
  \/ \E a \in SoleCaller, commandOk \in BOOLEAN : BootCommand(a, commandOk)
  \/ \E a \in SoleCaller, enumerationOk \in BOOLEAN : WaitPoll(a, enumerationOk)
  \/ \E a \in SoleCaller, failures \in ConnectFailures : Connect(a, failures)
  \/ \E a \in SoleCaller, udid \in LifecycleUdids : ShutdownSimulator(a, udid)
  \/ \E a \in SoleCaller, disconnectOk \in BOOLEAN : Disconnect(a, disconnectOk)
  \/ \E a \in SoleCaller, commandOk \in BOOLEAN : ShutdownCommand(a, commandOk)
  \/ \E a \in SoleCaller, sessionId \in SessionIds : TerminateSession(a, sessionId)
  \/ \E a \in SoleCaller, enumerationOk \in BOOLEAN :
       TerminateLookup(a, enumerationOk)
  \/ \E a \in SoleCaller, disconnectOk \in BOOLEAN : Cleanup(a, disconnectOk)
  \/ \E a \in SoleCaller : GetCurrentSimulator(a)
  \/ \E a \in SoleCaller, enumerationOk \in BOOLEAN : ListBooted(a, enumerationOk)
  \/ \E a \in SoleCaller, failures \in ConnectFailures : EnsureConnections(a, failures)
  \/ \E udid \in LifecycleUdids : DeviceProgress(udid)

SpecLifecycle == InitLifecycle /\ [][NextLifecycle]_vars

(***************************************************************************)
(* The idb process executor on its own: every run of a child process, and  *)
(* every order of the callbacks of a spawned child.                        *)
(***************************************************************************)
RetryRuns ==
  {ExecRun("exit", Num(<<"0">>), FALSE, <<"text", "\n">>, <<>>),
   ExecRun("exit", Num(<<"1">>), FALSE, <<>>, <<"text", "\n">>),
   ExecRun("timeout", Null, TRUE, <<>>, <<>>)}

ExitCodes == {Num(<<"0">>), Num(<<"1">>), Null}

InitExecutor ==
  /\ tools = <<>>
  /\ last = NoCall
  /\ response = NoResponse
  /\ devices = <<>>
  /\ activeSessions = <<>>
  /\ nextSessionId = 1
  /\ simLast = NoSimCall
  /\ sessionObjects = <<>>
  /\ appConfig = DefaultConfig
  /\ idb = IdbIdle
  /\ calls = [a \in CallerIds |-> Idle]

NextExecutor ==
  \/ \E run \in ExecRuns : ExecuteIdbCommand(run)
  \/ \E k \in 0..RetryAttempts, runs \in [1..(RetryAttempts + 1) -> RetryRuns] :
       ExecuteIdbCommandWithRetry(runs, k)
  \/ \E timed \in BOOLEAN : ExecuteIdbCommandWithSpawn(timed)
  \/ \E stream \in {"stdout", "stderr"}, chunk \in Outputs \ {<<>>} :
       SpawnData(stream, chunk)
  \/ SpawnTimeout
  \/ \E code \in ExitCodes : SpawnExit(code)
  \/ SpawnError

SpecExecutor == InitExecutor /\ [][NextExecutor]_vars

(***************************************************************************)
(* Boot and shutdown alone, under the event loop: it runs every timer and  *)
(* every callback of a child process, so a call that is polling takes its  *)
(* next turn.                                                              *)
(***************************************************************************)
NextWait ==
  \/ \E a \in SoleCaller, udid \in LifecycleUdids : BootSimulator(a, udid)
  \/ \E a \in SoleCaller, enumerationOk \in BOOLEAN : BootLookup(a, enumerationOk)
  \/ \E a \in SoleCaller, commandOk \in BOOLEAN : BootCommand(a, commandOk)
  \/ \E a \in SoleCaller, enumerationOk \in BOOLEAN : WaitPoll(a, enumerationOk)
  \/ \E a \in SoleCaller, failures \in ConnectFailures : Connect(a, failures)
  \/ \E a \in SoleCaller, udid \in LifecycleUdids : ShutdownSimulator(a, udid)
  \/ \E a \in SoleCaller, disconnectOk \in BOOLEAN : Disconnect(a, disconnectOk)
  \/ \E a \in SoleCaller, commandOk \in BOOLEAN : ShutdownCommand(a, commandOk)
  \/ \E udid \in LifecycleUdids : DeviceProgress(udid)

\* simulatorConfig.timeout as configured, and a timeout of no poll at all
\* (SIMULATOR_TIMEOUT that is not a number compares false with every time).
WaitConfigs == {AppConfig(TRUE, FALSE, t) : t \in {0, Timeout}}

InitWait ==
  /\ tools = <<>>
  /\ last = NoCall
  /\ response = NoResponse
  /\ devices \in LifecycleDeviceLists
  /\ activeSessions = <<>>
  /\ nextSessionId = 1
  /\ simLast = NoSimCall
  /\ sessionObjects = <<>>
  /\ appConfig \in WaitConfigs
  /\ idb = IdbIdle
  /\ calls = [a \in CallerIds |-> Idle]

SpecWait == InitWait /\ [][NextWait]_vars

SpecWaitFair ==
  /\ InitWait
  /\ [][NextWait]_vars
  /\ WF_vars(\E a \in SoleCaller, enumerationOk \in BOOLEAN :
               WaitPoll(a, enumerationOk))

(***************************************************************************)
(* Configuration: the create-session handler and focusSimulator under      *)
(* every setting of RN_AUTO_BOOT and of the headless mode.                 *)
(***************************************************************************)
AppConfigs == {AppConfig(p, h, Timeout) : p, h \in BOOLEAN}

PolicyDeviceLists ==
  {l \in LifecycleDeviceLists : Len(l) = 1 \/ l[1].udid = "U4"}

InitPolicy ==
  /\ tools = <<>>
  /\ last = NoCall
  /\ response = NoResponse
  /\ devices \in PolicyDeviceLists
  /\ activeSessions = <<>>
  /\ nextSessionId = 1
  /\ simLast = NoSimCall
  /\ sessionObjects = <<>>
  /\ appConfig \in AppConfigs
  /\ idb = IdbIdle
  /\ calls = [a \in CallerIds |-> Idle]

NextPolicy ==
  \/ \E a \in SoleCaller, config \in LifecycleConfigs, autoBoot \in AutoBootValues,
        enumerationOk \in BOOLEAN :
       CreateSessionHandler(a, config, autoBoot, enumerationOk)
  \/ \E a \in SoleCaller, enumerationOk \in BOOLEAN : BootLookup(a, enumerationOk)
  \/ \E a \in SoleCaller, commandOk \in BOOLEAN : BootCommand(a, commandOk)
  \/ \E a \in SoleCaller, enumerationOk \in BOOLEAN : WaitPoll(a, enumerationOk)
  \/ \E a \in SoleCaller, failures \in ConnectFailures : Connect(a, failures)
  \/ \E a \in SoleCaller, enumerationOk \in BOOLEAN : ListBooted(a, enumerationOk)
  \/ \E a \in SoleCaller, failures \in ConnectFailures : EnsureConnections(a, failures)
  \/ \E a \in SoleCaller, udid \in {"", "U1"} : FocusSimulator(a, udid)
  \/ \E a \in SoleCaller, commandOk \in BOOLEAN : Activate(a, commandOk)
  \/ \E udid \in LifecycleUdids : DeviceProgress(udid)

SpecPolicy == InitPolicy /\ [][NextPolicy]_vars

(***************************************************************************)
(* Interleaving: two callers on one device, their calls interleaved at     *)
(* every await.  One creates sessions and boots, the other terminates     *)
(* sessions and shuts down.                                                *)
(***************************************************************************)
RaceDeviceLists == {l \in LifecycleDeviceLists : Len(l) = 1 /\ l[1].udid = "U1"}

RaceConfigs == {c \in LifecycleConfigs : c.deviceType = <<"iPhone", " 15">>}

Creators == {"A"}
Terminators == {"B"}

InitRace ==
  /\ tools = <<>>
  /\ last = NoCall
  /\ response = NoResponse
  /\ devices \in RaceDeviceLists
  /\ activeSessions = <<>>
  /\ nextSessionId = 1
  /\ simLast = NoSimCall
  /\ sessionObjects = <<>>
  /\ appConfig = DefaultConfig
  /\ idb = IdbIdle
  /\ calls = [a \in CallerIds |-> Idle]

NextRace ==
  \/ \E a \in Creators, config \in RaceConfigs, autoBoot \in AutoBootValues,
        enumerationOk \in BOOLEAN :
       CreateSessionHandler(a, config, autoBoot, enumerationOk)
  \/ \E a \in Creators : BootSimulator(a, "U1")
  \/ \E a \in CallerIds, enumerationOk \in BOOLEAN : BootLookup(a, enumerationOk)
  \/ \E a \in CallerIds, commandOk \in BOOLEAN : BootCommand(a, commandOk)
  \/ \E a \in CallerIds, enumerationOk \in BOOLEAN : WaitPoll(a, enumerationOk)
  \/ \E a \in CallerIds, failures \in ConnectFailures : Connect(a, failures)
  \/ \E a \in Terminators : ShutdownSimulator(a, "U1")
  \/ \E a \in CallerIds, disconnectOk \in BOOLEAN : Disconnect(a, disconnectOk)
  \/ \E a \in CallerIds, commandOk \in BOOLEAN : ShutdownCommand(a, commandOk)
  \/ \E a \in Terminators, sessionId \in SessionIds : TerminateSession(a, sessionId)
  \/ \E a \in CallerIds, enumerationOk \in BOOLEAN :
       TerminateLookup(a, enumerationOk)
  \/ \E a \in CallerIds, disconnectOk \in BOOLEAN : Cleanup(a, disconnectOk)
  \/ DeviceProgress("U1")

SpecRace == InitRace /\ [][NextRace]_vars

(***************************************************************************)
(* Two requests in flight.  The request of caller A is received before the *)
(* request of caller B; the call-tool handler of a request runs, through   *)
(* CommandRouter.executeCommand, to the first await of its tool handler    *)
(* when the request is dispatched.                                         *)
(***************************************************************************)
ReceiptOrder == <<"A", "B">>

Position(a) == CHOOSE i \in 1..Len(ReceiptOrder) : ReceiptOrder[i] = a

Dispatched(a) == calls[a].pc # "idle"

\* A router that starts a handler after the handlers before it have ended.
DispatchableSerial(a) ==
  /\ ~Dispatched(a)
  /\ \A i \in 1..(Position(a) - 1) : calls[ReceiptOrder[i]].pc = "done"

\* The request of caller a is the next to be dispatched: the requests
\* received before it have been, and nothing else is waited for.
Dispatchable(a) ==
  /\ ~Dispatched(a)
  /\ \A i \in 1..(Position(a) - 1) : Dispatched(ReceiptOrder[i])

\* executeCommand(toolName, args) for a tool that boots a device or one
\* that works on the current simulator.
Dispatch(a) ==
  /\ Dispatchable(a)
  /\ \/ \E udid \in LifecycleUdids : BootSimulator(a, udid)
     \/ GetCurrentSimulator(a)

\* Both devices are enumerated: U1 is shut down, U4 is booted.
OverlapDeviceLists ==
  {l \in LifecycleDeviceLists : {l[i].udid : i \in 1..Len(l)} = {"U1", "U4"}}

InitOverlap ==
  /\ tools = <<>>
  /\ last = NoCall
  /\ response = NoResponse
  /\ devices \in OverlapDeviceLists
  /\ activeSessions = <<>>
  /\ nextSessionId = 1
  /\ simLast = NoSimCall
  /\ sessionObjects = <<>>
  /\ appConfig = DefaultConfig
  /\ idb = IdbIdle
  /\ calls = [a \in CallerIds |-> Idle]

NextOverlap ==
  \/ \E a \in CallerIds : Dispatch(a)
  \/ \E a \in CallerIds, enumerationOk \in BOOLEAN : BootLookup(a, enumerationOk)
  \/ \E a \in CallerIds, commandOk \in BOOLEAN : BootCommand(a, commandOk)
  \/ \E a \in CallerIds, enumerationOk \in BOOLEAN : WaitPoll(a, enumerationOk)
  \/ \E a \in CallerIds, failures \in ConnectFailures : Connect(a, failures)
  \/ \E a \in CallerIds, enumerationOk \in BOOLEAN : ListBooted(a, enumerationOk)
  \/ \E a \in CallerIds, failures \in ConnectFailures : EnsureConnections(a, failures)
  \/ \E udid \in LifecycleUdids : DeviceProgress(udid)

SpecOverlap == InitOverlap /\ [][NextOverlap]_vars

(***************************************************************************)
(* The current simulator under two callers: caller A asks for it, caller B *)
(* boots and shuts down devices and asks for it as well.                   *)
(***************************************************************************)
CurrentUdids == {"U1", "U4"}

NextCurrent ==
  \/ \E a \in CallerIds : GetCurrentSimulator(a)
  \/ \E a \in CallerIds, enumerationOk \in BOOLEAN : ListBooted(a, enumerationOk)
  \/ \E a \in CallerIds, failures \in ConnectFailures : EnsureConnections(a, failures)
  \/ \E udid \in CurrentUdids : BootSimulator("B", udid)
  \/ \E enumerationOk \in BOOLEAN : BootLookup("B", enumerationOk)
  \/ \E commandOk \in BOOLEAN : BootCommand("B", commandOk)
  \/ \E enumerationOk \in BOOLEAN : WaitPoll("B", enumerationOk)
  \/ \E failures \in ConnectFailures : Connect("B", failures)
  \/ \E udid \in CurrentUdids : ShutdownSimulator("B", udid)
  \/ \E disconnectOk \in BOOLEAN : Disconnect("B", disconnectOk)
  \/ \E commandOk \in BOOLEAN : ShutdownCommand("B", commandOk)
  \/ \E udid \in CurrentUdids : DeviceProgress(udid)

SpecCurrent == InitOverlap /\ [][NextCurrent]_vars

(***************************************************************************)
(* Properties of the argument validation                                   *)
(***************************************************************************)
Called == response.kind # "none" /\ response.tool # NoTool

CalledArgs == ArgsOrEmpty(response.arguments)

MissingRequired(schema, args) ==
  \E r \in Range(schema.required) :
    \A e \in Range(args) : e.key # r

WrongPrimitiveType(schema, args) ==
  \E e \in Range(args), p \in Range(schema.properties) :
    /\ p.key = e.key
    /\ p.type \in {"string", "number", "boolean"}
    /\ e.value.type # p.type

OutsideEnum(schema, args) ==
  \E e \in Range(args), p \in Range(schema.properties) :
    /\ p.key = e.key
    /\ p.hasEnum
    /\ e.value \notin Range(p.enum)

\* C9: a call-tool request whose arguments miss a required property, have
\* the wrong primitive type for a declared string/number/boolean property
\* or fall outside a declared enum is rejected before the router is
\* called and no handler runs; the rejection carries InvalidRequest, a
\* code that no response made after the router was called carries.
C9_ValidationBeforeRouter ==
  /\ (Called /\ (\/ MissingRequired(response.tool.inputSchema, CalledArgs)
                 \/ WrongPrimitiveType(response.tool.inputSchema, CalledArgs)
                 \/ OutsideEnum(response.tool.inputSchema, CalledArgs))) =>
       /\ response.kind = "error"
       /\ response.code = InvalidRequest
       /\ ~response.routed
       /\ ~response.invoked
  /\ (response.routed \/ response.invoked) => response.code # InvalidRequest
  /\ (Called /\ response.invoked /\ response.tool.handler.kind # "resolve") =>
       /\ response.kind = "result"
       /\ response.value.isError = JsTrue

C9_Witness ==
  /\ Called
  /\ ~MissingRequired(response.tool.inputSchema, CalledArgs)
  /\ ~WrongPrimitiveType(response.tool.inputSchema, CalledArgs)
  /\ OutsideEnum(response.tool.inputSchema, CalledArgs)
  /\ response.tool.handler.kind = "throwError"
  /\ response.kind = "error"
  /\ response.code = InvalidRequest
  /\ ~response.invoked

(***************************************************************************)
(* Properties of session creation                                          *)
(***************************************************************************)
Created == simLast.op = "createSimulatorSession" /\ simLast.enumerated

NameAndVersionMatch(sim, config) ==
  /\ StrIncludes(sim.name, config.deviceType)
  /\ config.iosVersionGiven => StrIncludes(sim.version, config.iosVersion)

Matching(sims, config) ==
  {i \in 1..Len(sims) : NameAndVersionMatch(sims[i], config)}

\* C10: createSimulatorSession fails with a not-found error and leaves the
\* session store unchanged when no enumerated device matches deviceType
\* (and iosVersion, if given); when a device matches it succeeds and the
\* stored session has the udid of the first matching device in enumeration
\* order.
C10_CreateSessionSelectsFirstMatch ==
  [][(simLast' # simLast /\ Created') =>
       LET sims == simLast'.available
           config == simLast'.config
           matching == Matching(sims, config)
       IN /\ sims = listAvailableSimulators
          /\ matching = {} =>
               /\ ~simLast'.ok
               /\ simLast'.error
                    = <<"No simulator found matching device type: ">>
                      \o config.deviceType
               /\ activeSessions' = activeSessions
          /\ matching # {} =>
               /\ simLast'.ok
               /\ Len(activeSessions') = Len(activeSessions) + 1
               /\ SessionGet(activeSessions', simLast'.sessionId) # NoSession
               /\ SessionGet(activeSessions, simLast'.sessionId) = NoSession
               /\ \E i \in matching :
                    /\ \A j \in matching : i <= j
                    /\ SessionGet(activeSessions', simLast'.sessionId).udid
                         = sims[i].udid]_vars

\* Two devices match and the session is on the first of them; elsewhere no
\* device matched and the store stayed as it was.
C10_Witness ==
  /\ Created
  /\ simLast.ok
  /\ Cardinality(Matching(simLast.available, simLast.config)) = 2
  /\ simLast.config.iosVersionGiven
  /\ getSimulatorSession(simLast.sessionId).udid = simLast.available[1].udid
  /\ getSimulatorSession(simLast.sessionId).state = "inactive"

(***************************************************************************)
(* Properties of the router's error handling                               *)
(***************************************************************************)
Executed == last.op = "executeCommand"

ExecutedTool == getTool(last.name)

ResultOf == last.settled.value

IsErrorResult(v) == v.isError = JsTrue

OneTextBlock(v) ==
  /\ v.content.tag = "array"
  /\ Len(v.content.items) = 1
  /\ v.content.items[1].type = "text"

\* C1: executeCommand never throws; when the handler of a registered tool
\* throws or rejects, the call resolves to an isError result whose content
\* is exactly one text block "Error executing <name>: <message>", <message>
\* being the message of the thrown Error.
C1_HandlerFailureBecomesErrorResult ==
  Executed =>
    /\ last.settled.outcome = "resolved"
    /\ (hasTool(last.name) /\ ExecutedTool.handler.kind # "resolve") =>
         /\ last.settled.invoked
         /\ IsErrorResult(ResultOf)
         /\ OneTextBlock(ResultOf)
         /\ Len(ResultOf.content.items[1].text) >= 3
         /\ SubSeq(ResultOf.content.items[1].text, 1, 3)
              = <<"Error executing ", last.name, ": ">>
         /\ ExecutedTool.handler.kind = "throwError" =>
              ResultOf.content.items[1].text
                = <<"Error executing ", last.name, ": ">>
                  \o ExecutedTool.handler.message

C1_Witness ==
  /\ Executed
  /\ hasTool(last.name)
  /\ ExecutedTool.handler = ThrowsError(<<"boom">>)
  /\ ResultOf.content.items[1].text
       = <<"Error executing ", last.name, ": ", "boom">>

Registered == {n \in ToolNames : hasTool(n)}

\* C6: after registerTool(t), getTool(t.name) is t (last write wins) and
\* the count is the number of distinct registered names: registering an
\* existing name leaves the count unchanged, a new name adds one.
C6_LastWriteWins ==
  [][\A t \in RegistryToolSpecs :
       (last'.op = "registerTool" /\ last'.tool = t) =>
         /\ getTool(t.name)' = t
         /\ hasTool(t.name)'
         /\ getToolCount' = getToolCount + (IF hasTool(t.name) THEN 0 ELSE 1)
         /\ getToolCount' = Cardinality(Registered')
         /\ Registered' = Registered \cup {t.name}]_vars

\* Registered a, b and a again: count 2, a present, c absent.
C6_Witness ==
  /\ last.op = "registerTool"
  /\ last.name = "a"
  /\ getToolCount = 2
  /\ getAvailableCommands = <<"a", "b">>
  /\ getTool("a") = last.tool
  /\ hasTool("a")
  /\ ~hasTool("c")

\* C7: unregisterTool(name) returns true iff the name was registered; after
\* it the name is absent, the count dropped by one exactly when true was
\* returned, and every other entry is unchanged.
C7_Unregister ==
  [][\A n \in ToolNames :
       (last'.op = "unregisterTool" /\ last'.name = n) =>
         /\ last'.ret = hasTool(n)
         /\ ~hasTool(n)'
         /\ getTool(n)' = NoTool
         /\ getToolCount' = getToolCount - (IF last'.ret THEN 1 ELSE 0)
         /\ \A m \in ToolNames \ {n} :
              /\ hasTool(m)' = hasTool(m)
              /\ getTool(m)' = getTool(m)]_vars

C7_Witness ==
  /\ last.op = "unregisterTool"
  /\ last.ret
  /\ getToolCount >= 1
  /\ ~hasTool(last.name)

\* C8: getToolsByCategory(c) holds exactly the registered tools of category
\* c, and the router's hasCommand, getAvailableCommands and
\* getCommandsByCategory agree with the registry's content.
C8_ReadThrough ==
  /\ \A c \in Categories :
       /\ Range(getToolsByCategory(c))
            = {getTool(n) : n \in {m \in Registered : getTool(m).category = c}}
       /\ Range(getCommandsByCategory(c))
            = {m \in Registered : getTool(m).category = c}
       /\ Len(getCommandsByCategory(c))
            = Cardinality({m \in Registered : getTool(m).category = c})
  /\ \A c \in {"react-native"} :
       getToolsByCategory(c) = <<>> /\ getCommandsByCategory(c) = <<>>
  /\ Range(getAvailableCommands) = Registered
  /\ Len(getAvailableCommands) = Cardinality(Registered)
  /\ \A n \in ToolNames : hasCommand(n) <=> (getTool(n) # NoTool)

C8_Witness ==
  /\ last.op = "unregisterTool"
  /\ last.ret
  /\ getToolCount = 1
  /\ \E c \in Categories :
       /\ getCommandsByCategory(c) = getAvailableCommands
       /\ \A d \in Categories \ {c} : getCommandsByCategory(d) = <<>>

(***************************************************************************)
(* Properties of the result envelope                                       *)
(***************************************************************************)
HandlerValue == ExecutedTool.handler.value

ExecutedResolving ==
  Executed /\ hasTool(last.name) /\ ExecutedTool.handler.kind = "resolve"

\* C4: every result of executeCommand has a content array with at least one
\* block (content is never empty on success), and every error result holds
\* exactly one text block with isError = true.
C4_EnvelopeInvariant ==
  Executed =>
    /\ ResultOf.content.tag = "array"
    /\ Len(ResultOf.content.items) >= 1
    /\ IsErrorResult(ResultOf) => OneTextBlock(ResultOf)

HasArrayContent(v) == v.type = "object" /\ v.content.tag = "array"
IsString(v) == v.type = "string"
HasStringMessage(v) == v.type = "object" /\ v.message.tag = "string"
IsNonNullObject(v) == v.type = "object" /\ v # Null

Wrapped(toks) ==
  [type |-> "object", str |-> <<"[object Object]">>,
   content |-> [tag |-> "array", text |-> <<>>,
                items |-> <<[type |-> "text", text |-> toks]>>],
   message |-> Absent, isError |-> Absent, extra |-> Absent]

\* C5: normalisation follows the priority order: a value with an array
\* content field is returned verbatim (also when it has a message field);
\* otherwise a string is wrapped as one text block; otherwise a string
\* message field becomes the text; otherwise a non-null object is
\* serialised; otherwise the value is stringified.
C5_NormalizationPriority ==
  ExecutedResolving =>
    LET v == HandlerValue
        r == ResultOf
    IN /\ HasArrayContent(v) => r = v
       /\ (~HasArrayContent(v) /\ IsString(v)) => r = Wrapped(v.str)
       /\ (~HasArrayContent(v) /\ ~IsString(v) /\ HasStringMessage(v)) =>
            r = Wrapped(v.message.text)
       /\ (~HasArrayContent(v) /\ ~IsString(v) /\ ~HasStringMessage(v)
              /\ IsNonNullObject(v)) =>
            /\ OneTextBlock(r)
            /\ r.content.items[1].text = JSONstringify(v)
            /\ r.isError = Absent
       /\ (~HasArrayContent(v) /\ ~IsString(v) /\ ~HasStringMessage(v)
              /\ ~IsNonNullObject(v)) =>
            r = Wrapped(v.str)

C5_Witness ==
  /\ ExecutedResolving
  /\ HasArrayContent(HandlerValue)
  /\ HandlerValue.message.tag = "string"
  /\ ResultOf = HandlerValue
  /\ ResultOf.isError = Absent

(***************************************************************************)
(* Properties of the create-session handler                                *)
(***************************************************************************)
HandlerCalls ==
  {calls[a] : a \in {b \in CallerIds :
                       /\ calls[b].op = "create_rn_simulator_session"
                       /\ calls[b].sessionId # 0}}

SessionState(c) == sessionObjects[c.sessionId]

\* C11: the session is stored inactive, and the auto-boot policy of the
\* configuration decides what follows: with the policy disabled no boot
\* command is issued and the session stays inactive, with the policy enabled
\* the device is booted and the session marked active.  Stated for the
\* requests that leave autoBoot out, where nothing but the configuration
\* could decide.
C11_ConfiguredPolicyDecides ==
  \A c \in HandlerCalls :
    c.autoBoot = Undefined =>
      /\ ~appConfig.autoBootOnCreate =>
           /\ c.pc = "done"
           /\ ~c.issued
           /\ SessionState(c) = "inactive"
      /\ appConfig.autoBootOnCreate =>
           ~(c.pc = "done" /\ c.ok /\ SessionState(c) = "inactive")

(***************************************************************************)
(* Properties of the session state                                         *)
(***************************************************************************)
StateRank(st) ==
  CASE st = "inactive" -> 1
    [] st = "active" -> 2
    [] st = "terminated" -> 3

\* C12: across every interleaving of create-session handlers, boot,
\* shutdown and terminate calls, the state of a session object only moves
\* inactive -> active -> terminated, never back, and no session in the
\* store has the state terminated.
C12_SessionStateMonotone ==
  /\ [][\A id \in 1..Len(sessionObjects) :
          StateRank(sessionObjects'[id]) >= StateRank(sessionObjects[id])]_vars
  /\ [](\A i \in 1..Len(activeSessions) :
          activeSessions[i].state # "terminated")

(***************************************************************************)
(* Properties of boot and shutdown                                         *)
(***************************************************************************)
CallsOf(op) == {calls[a] : a \in {b \in CallerIds : calls[b].op = op}}

Done(c) == c.pc = "done"

Enumerated(udid) ==
  \E i \in 1..Len(listAvailableSimulators) :
    listAvailableSimulators[i].udid = udid

\* C13: bootSimulatorByUDID issues the boot command only for a udid that
\* was enumerated in a state other than Booted.  For a udid no enumerated
\* device has it fails with the not-found error (or with the error of the
\* enumeration itself) and issues nothing; for a device found Booted it
\* returns successfully with no boot command and no poll.
C13_BootOnlyWhenNeeded ==
  \A c \in CallsOf("bootSimulatorByUDID") :
    /\ c.issued => Enumerated(c.udid) /\ c.initial \notin {"", "Booted"}
    /\ ~Enumerated(c.udid) /\ Done(c) =>
         /\ ~c.ok /\ ~c.issued /\ ~c.polled
         /\ c.error \in {NotFoundError(c.udid), ListError}
    /\ c.initial = "Booted" =>
         Done(c) /\ c.ok /\ ~c.issued /\ ~c.polled

\* A boot of a device that was found Booted has returned.
C13_Witness ==
  \E c \in CallsOf("bootSimulatorByUDID") :
    Done(c) /\ c.ok /\ c.initial = "Booted" /\ ~c.issued

Waited(c) == c.expected # ""

\* C14: a boot none of whose polls within the timeout observes Booted
\* terminates, with the timeout error that names the udid and the expected
\* state Booted; a shutdown likewise with the expected state Shutdown.
\* A call that is polling stops polling, it has never slept more often
\* than the timeout allows, a wait that ends unobserved ends in an error,
\* and when the time ran out its error is the timeout error (before that,
\* it can only be the error of a poll whose enumeration failed).
C14_WaitTimesOut ==
  /\ \A a \in CallerIds : (calls[a].pc = "wait") ~> (calls[a].pc # "wait")
  /\ [](\A c \in CallsOf("bootSimulatorByUDID") \cup
                 CallsOf("shutdownSimulatorByUDID") :
          /\ c.elapsed <= appConfig.timeout
          /\ Waited(c) =>
               c.expected = IF c.op = "bootSimulatorByUDID"
                            THEN "Booted" ELSE "Shutdown"
          /\ (Done(c) /\ Waited(c) /\ ~c.observed) =>
               /\ ~c.ok
               /\ c.error \in {TimeoutError(c.udid, c.expected), ListError}
          /\ (Done(c) /\ Waited(c) /\ ~c.observed /\ c.elapsed >= appConfig.timeout) =>
               c.error = TimeoutError(c.udid, c.expected))

\* A boot has timed out after polling for the whole timeout.
C14_Witness ==
  \E c \in CallsOf("bootSimulatorByUDID") :
    /\ Done(c) /\ c.polled /\ ~c.observed /\ c.elapsed = Timeout
    /\ c.error = TimeoutError(c.udid, "Booted")

BootCalls == CallsOf("bootSimulatorByUDID")

\* C16: once a poll has observed the device Booted, a failure to connect
\* the companion does not fail bootSimulatorByUDID: the boot still resolves
\* successfully.
C16_ConnectFailureSwallowed ==
  \A c \in BootCalls :
    (Done(c) /\ c.observed /\ c.connectFailed) => c.ok

\* C15: a boot that found the device Shutdown and one of whose polls, made
\* before the timeout, observed it Booted completes without a timeout
\* error, and successfully, so that the session of the device can be
\* marked active.
C15_BootCompletesOnceBooted ==
  \A c \in BootCalls :
    (Done(c) /\ c.initial = "Shutdown" /\ c.observed) =>
      /\ c.error # TimeoutError(c.udid, "Booted")
      /\ c.ok

ShutdownCalls == CallsOf("shutdownSimulatorByUDID")

\* C17: shutdownSimulatorByUDID keeps a fixed order: the shutdown command
\* is issued only after the disconnect attempt has finished, polling for
\* Shutdown starts only after the shutdown command has returned, and a
\* failed disconnect is followed by the shutdown command all the same.
C17_ShutdownOrder ==
  \A c \in ShutdownCalls :
    /\ c.pc = "disconnect" => c.disc = "none" /\ ~c.issued /\ ~Waited(c)
    /\ c.issued => c.disc # "none"
    /\ (Waited(c) \/ c.polled) => c.issued /\ c.expected = "Shutdown"
    /\ c.disc # "none" => c.pc = "shutdownCommand" \/ c.issued

\* A shutdown whose disconnect failed has issued the command and polled.
C17_Witness ==
  \E c \in ShutdownCalls :
    c.disc = "failed" /\ c.issued /\ c.polled /\ Done(c) /\ c.ok

(***************************************************************************)
(* Properties of terminateSimulatorSession                                 *)
(***************************************************************************)
TerminateCalls == CallsOf("terminateSimulatorSession")

Stored(sessionId) ==
  \/ getSimulatorSession(sessionId) # NoSession
  \/ \E i \in 1..Len(getAllSessions) : getAllSessions[i].id = sessionId

\* A step in which caller a calls terminateSimulatorSession.
TerminateCalled(a) ==
  /\ Finished(calls[a])
  /\ calls'[a] # calls[a]
  /\ calls'[a].op = "terminateSimulatorSession"

\* C18: terminateSimulatorSession(id) for an unknown id fails with the
\* not-found error and changes nothing.  For a known session whose device
\* was found Booted, a successful call has observed the device Shutdown, and
\* the session is then in neither getAllSessions() nor
\* getSimulatorSession(id).  For a known session whose device was found in
\* another state no shutdown command is issued, and the session is removed
\* all the same.
C18_Terminate ==
  /\ [][\A a \in CallerIds :
          (TerminateCalled(a) /\ ~Stored(calls'[a].sessionId)) =>
            /\ Done(calls'[a]) /\ ~calls'[a].ok
            /\ calls'[a].error = SessionNotFoundError(calls'[a].sessionId)
            /\ UNCHANGED <<devices, activeSessions, sessionObjects,
                           nextSessionId>>]_vars
  /\ [](\A c \in TerminateCalls :
          /\ (Done(c) /\ c.ok) =>
               /\ ~Stored(c.sessionId)
               /\ c.sessionId \in 1..Len(sessionObjects)
               /\ sessionObjects[c.sessionId] = "terminated"
          /\ (Done(c) /\ c.ok /\ c.initial = "Booted") =>
               c.issued /\ c.observed /\ c.expected = "Shutdown"
          /\ (c.pc \in {"cleanup", "done"} /\ c.initial # "Booted") =>
               /\ ~c.issued
               /\ Done(c) =>
                    \/ c.ok
                    \/ c.error \in {SessionNotFoundError(c.sessionId), ListError})

\* The session of a booted device has been terminated: the device was
\* observed Shutdown and the session is gone.
C18_Witness ==
  \E c \in TerminateCalls :
    /\ Done(c) /\ c.ok /\ c.initial = "Booted" /\ c.observed
    /\ ~Stored(c.sessionId)

(***************************************************************************)
(* Properties of getCurrentSimulator and focusSimulator                    *)
(***************************************************************************)
CurrentCalls == CallsOf("getCurrentSimulator")

\* sims[i] is booted and no device before it is.
IsFirstBooted(sims, i) ==
  /\ sims[i].state = "Booted"
  /\ \A j \in 1..(i - 1) : sims[j].state # "Booted"

\* A step in which the getCurrentSimulator of caller a gets its enumeration.
CurrentListed(a) ==
  /\ calls[a].op = "getCurrentSimulator"
  /\ calls[a].pc = "list"
  /\ calls'[a].pc # "list"
  /\ calls'[a].error # ListError

\* C19: getCurrentSimulator returns the first device, in enumeration order,
\* whose state is Booted, and null when none is booted; a boot that
\* succeeded leaves its device Booted, so that with a single device the
\* call that follows returns the udid that was booted; and a failure to
\* connect the companion never makes getCurrentSimulator fail: it fails
\* only when the enumeration does.
C19_CurrentIsFirstBooted ==
  /\ [][\A a \in CallerIds :
          CurrentListed(a) =>
            LET sims == listAvailableSimulators
                ret == calls'[a].ret
            IN /\ (\A i \in 1..Len(sims) : sims[i].state # "Booted") =>
                    ret = "" /\ Done(calls'[a]) /\ calls'[a].ok
               /\ \A i \in 1..Len(sims) :
                    IsFirstBooted(sims, i) => ret = sims[i].udid]_vars
  /\ [](\A c \in BootCalls :
          (Done(c) /\ c.ok) => StateOf(devices, c.udid) = "Booted")
  /\ [](\A c \in CurrentCalls :
          /\ c.connectFailed => Done(c) /\ c.ok
          /\ (Done(c) /\ ~c.ok) => c.error = ListError)

\* With two booted devices the call has returned the first, although the
\* companion could not be connected.
C19_Witness ==
  \E c \in CurrentCalls :
    /\ Done(c) /\ c.ok /\ c.connectFailed
    /\ Len(listAvailableSimulators) = 2
    /\ \A i \in 1..2 : listAvailableSimulators[i].state = "Booted"
    /\ c.ret = listAvailableSimulators[1].udid

FocusCalls == CallsOf("focusSimulator")

\* C20: when headless mode is configured, focusSimulator(udid?) is a no-op
\* and not an error for every input: no window-activation command is
\* issued and the call never fails, with or without a udid, with or without
\* a booted simulator.
C20_HeadlessFocusIsNoOp ==
  isHeadlessEnabled =>
    \A c \in FocusCalls :
      /\ ~c.issued
      /\ c.pc # "activate"
      /\ Done(c) => c.ok

(***************************************************************************)
(* C21  executeCommandWithRetry                                            *)
(***************************************************************************)
RetryDone == idb.op = "executeCommandWithRetry" /\ idb.settled # "pending"

Invocations == Count(idb.log, "executeCommand")

\* The attempts, of the k + 1 the loop allows, that would succeed.
Succeeding == {i \in 1..(idb.k + 1) : idbExecuteCommand(idb.runs[i]).success}

\* C21: with retryAttempts = k, executeCommandWithRetry invokes the command
\* at most k + 1 times, exactly k + 1 times when every attempt fails, and
\* never again after the first success; it sleeps between two attempts and
\* never after the last one; and it resolves, without throwing, to the
\* result of its last invocation.
C21_RetryAttemptsBounded ==
  RetryDone =>
    /\ Invocations >= 1
    /\ Invocations <= idb.k + 1
    /\ Succeeding = {} => Invocations = idb.k + 1
    /\ Succeeding # {} =>
         /\ Invocations \in Succeeding
         /\ \A i \in Succeeding : Invocations <= i
    /\ Len(idb.log) = 2 * Invocations - 1
    /\ \A i \in 1..Len(idb.log) :
         idb.log[i] = IF i % 2 = 1 THEN "executeCommand" ELSE "delay"
    /\ idb.settled = "resolved"
    /\ idb.result = <<idbExecuteCommand(idb.runs[Invocations])>>

\* retryAttempts = 2 and three failures: three invocations, two sleeps, and
\* the failing result of the third.
C21_Witness ==
  /\ RetryDone
  /\ idb.k = 2
  /\ Succeeding = {}
  /\ Invocations = 3
  /\ Count(idb.log, "delay") = 2
  /\ ~idb.result[1].success

(***************************************************************************)
(* C22  executeCommand and executeCommandWithSpawn never reject            *)
(***************************************************************************)
\* C22: the promise of executeCommand and the promise of
\* executeCommandWithSpawn are never rejected: a zero exit, a non-zero
\* exit, a signal, a spawn error and a timeout each resolve it to one
\* CommandResult, which is a success only for the zero exit.
C22_ExecutorNeverRejects ==
  /\ idb.settled # "rejected"
  /\ idb.op = "executeCommand" =>
       /\ idb.settled = "resolved"
       /\ Len(idb.result) = 1
       /\ idb.result[1].success = ExecResolves(idb.runs[1])
  /\ (idb.op = "executeCommandWithSpawn" /\ idb.fired # {}) =>
       /\ idb.settled = "resolved"
       /\ Len(idb.result) = 1
       /\ idb.result[1].success => idb.first = "exit"

\* An exec that timed out has resolved to a failure.
C22_Witness ==
  /\ idb.op = "executeCommand"
  /\ idb.runs[1].cause = "timeout"
  /\ idb.settled = "resolved"
  /\ ~idb.result[1].success

(***************************************************************************)
(* C23  success, exitCode and the timeout marker                           *)
(***************************************************************************)
Negative(v) == v.type = "number" /\ v.str # <<>> /\ Head(v.str) = "-"

HasTimeoutMarker(stderr) ==
  \E i \in 1..Len(stderr) : stderr[i] = "Command timed out"

SuccessIffZero(r) == r.success <=> r.exitCode = Num(<<"0">>)

TimeoutResult(r) ==
  ~r.success /\ Negative(r.exitCode) /\ HasTimeoutMarker(r.stderr)

\* C23: a result of a child that ended on its own, with or without a
\* numeric exit code, has success exactly when exitCode is 0, and a result
\* of a timeout has success false, a negative exitCode and the timeout
\* marker in stderr, under exec and under spawn alike.
C23_ResultInvariant ==
  /\ idb.op = "executeCommand" =>
       /\ idb.runs[1].cause \in {"exit", "signal"} =>
            SuccessIffZero(idb.result[1])
       /\ idb.runs[1].cause = "timeout" => TimeoutResult(idb.result[1])
  /\ (idb.op = "executeCommandWithSpawn" /\ idb.settled = "resolved") =>
       /\ idb.first = "exit" => SuccessIffZero(idb.result[1])
       /\ idb.first = "timeout" => TimeoutResult(idb.result[1])

(***************************************************************************)
(* C30  executeCommandWithSpawn settles once                               *)
(***************************************************************************)
SpawnSettled == idb.op = "executeCommandWithSpawn" /\ idb.settled = "resolved"

\* C30: under every order of the timer, the exit and the error callback the
\* promise of executeCommandWithSpawn takes the result of the callback that
\* runs first and no later callback changes it.  When the timer runs first
\* the child is killed and the result is the timeout result with exitCode
\* -1, also after the exit callback has followed; when exit or error runs
\* first the timer is cleared, and no timeout result comes afterwards.
C30_SpawnSettlesOnce ==
  /\ [][(SpawnSettled /\ idb'.op = idb.op /\ idb'.fired # {}) =>
          /\ idb'.settled = "resolved"
          /\ idb'.result = idb.result
          /\ idb'.first = idb.first]_vars
  /\ [](SpawnSettled =>
          /\ idb.first \in idb.fired
          /\ Len(idb.result) = 1
          /\ idb.first = "timeout" =>
               /\ idb.killed
               /\ idb.timer = "fired"
               /\ TimeoutResult(idb.result[1])
               /\ idb.result[1].exitCode = Num(<<"-", "1">>)
          /\ idb.first \in {"exit", "error"} =>
               /\ idb.timer \in {"none", "cleared"}
               /\ "timeout" \notin idb.fired
               /\ ~HasTimeoutMarker(idb.result[1].stderr))

\* The timer ran first, the exit callback followed, and the result is still
\* the timeout result.
C30_Witness ==
  /\ SpawnSettled
  /\ idb.first = "timeout"
  /\ "exit" \in idb.fired
  /\ idb.result[1].exitCode = Num(<<"-", "1">>)

(***************************************************************************)
(* C26  No retry of boot and shutdown                                      *)
(***************************************************************************)
ConvergenceCalls ==
  BootCalls \cup ShutdownCalls \cup TerminateCalls
    \cup CallsOf("create_rn_simulator_session")

\* C26: one boot call issues the boot command at most once and one
\* shutdown call the shutdown command at most once; a call whose command
\* failed or whose polling timed out has failed with that one command
\* issued.  The retry loop runs in the companion connect alone, which
\* invokes its command between once and retryAttempts + 1 times and fails
\* only after all of them.
C26_NoRetryOfConvergence ==
  \A c \in ConvergenceCalls :
    /\ c.commands <= 1
    /\ c.issued <=> c.commands = 1
    /\ (Done(c) /\ Waited(c) /\ ~c.observed) => ~c.ok /\ c.commands = 1
    /\ (c.issued /\ ~Waited(c)) => Done(c) /\ ~c.ok
    /\ c.connects <= RetryAttempts + 1
    /\ c.connects > 0 => c.observed /\ c.expected = "Booted"
    /\ c.connectFailed => c.connects = RetryAttempts + 1

\* A boot has timed out with its one command issued.
C26_Witness ==
  \E c \in BootCalls :
    /\ Done(c)
    /\ ~c.ok
    /\ c.error = TimeoutError(c.udid, "Booted")
    /\ c.commands = 1

(***************************************************************************)
(* C27  A boot that succeeds has seen the device booted                    *)
(***************************************************************************)
\* C27: bootSimulatorByUDID resolves successfully only when its first
\* lookup found the device Booted or a poll after its boot command observed
\* Booted; with a timeout of zero no poll is made and the boot fails.
C27_BootSuccessObserved ==
  \A c \in BootCalls :
    /\ (Done(c) /\ c.ok) =>
         \/ c.initial = "Booted" /\ ~c.issued
         \/ c.issued /\ c.polled /\ c.observed /\ appConfig.timeout > 0
    /\ (Done(c) /\ c.issued /\ appConfig.timeout = 0) =>
         ~c.ok /\ ~c.polled

\* A boot of a device that was shut down has succeeded after a poll saw it
\* booted.
C27_Witness ==
  \E c \in BootCalls :
    /\ Done(c)
    /\ c.ok
    /\ c.initial = "Shutdown"
    /\ c.observed

(***************************************************************************)
(* C28  A failed terminate keeps the session                               *)
(***************************************************************************)
\* A terminate that found its session and failed afterwards.
FailedAfterFound(c) ==
  /\ c.op = "terminateSimulatorSession"
  /\ Done(c)
  /\ ~c.ok
  /\ c.error # SessionNotFoundError(c.sessionId)

\* C28: when terminateSimulatorSession fails after it found the session,
\* because the enumeration failed, the shutdown command failed or the
\* polling timed out, the caller gets that error, the step that fails
\* leaves the store and the session as they were, the session is still
\* stored, and the next terminate for the same id finds it.
C28_FailedTerminateKeepsSession ==
  /\ [][\A a \in SoleCaller :
          /\ (~Done(calls[a]) /\ FailedAfterFound(calls'[a])) =>
               /\ calls'[a].error \in
                    {ListError,
                     CommandError("xcrun simctl shutdown ", calls[a].udid),
                     TimeoutError(calls[a].udid, "Shutdown")}
               /\ UNCHANGED <<activeSessions, sessionObjects>>
          /\ (FailedAfterFound(calls[a]) /\ TerminateCalled(a)
                /\ calls'[a].sessionId = calls[a].sessionId) =>
               calls'[a].pc = "terminate"]_vars
  /\ [](\A a \in SoleCaller :
          FailedAfterFound(calls[a]) =>
            /\ Stored(calls[a].sessionId)
            /\ sessionObjects[calls[a].sessionId] # "terminated")

\* A terminate whose shutdown timed out, with its session still stored.
C28_Witness ==
  \E a \in SoleCaller :
    /\ FailedAfterFound(calls[a])
    /\ calls[a].error = TimeoutError(calls[a].udid, "Shutdown")
    /\ Stored(calls[a].sessionId)

(***************************************************************************)
(* C29  What leaves the session store alone                                *)
(***************************************************************************)
\* A step of a call of caller a.
Stepped(a) == calls'[a] # calls[a]

StoreOps == {"create_rn_simulator_session", "terminateSimulatorSession"}

\* C29: no step of bootSimulatorByUDID, shutdownSimulatorByUDID or
\* getCurrentSimulator changes the session store or a session, so a session
\* marked active is still active after its device was shut down through
\* shutdownSimulatorByUDID; the store and the sessions change only in steps
\* of the create-session handler (which calls createSimulatorSession) and
\* of terminateSimulatorSession; and a terminate changes no session other
\* than its own, one of the same udid included.
C29_StoreFrame ==
  [][/\ \A a \in CallerIds :
          (Stepped(a) /\ calls'[a].op \notin StoreOps) =>
            UNCHANGED <<activeSessions, sessionObjects, nextSessionId>>
     /\ ~UNCHANGED <<activeSessions, sessionObjects, nextSessionId>> =>
          \E a \in CallerIds : Stepped(a) /\ calls'[a].op \in StoreOps
     /\ \A a \in CallerIds :
          (Stepped(a) /\ calls'[a].op = "terminateSimulatorSession") =>
            /\ Len(sessionObjects') = Len(sessionObjects)
            /\ \A id \in 1..Len(sessionObjects) :
                 id # calls'[a].sessionId =>
                   /\ sessionObjects'[id] = sessionObjects[id]
                   /\ SessionGet(activeSessions', id)
                        = SessionGet(activeSessions, id)]_vars

\* A shutdown of the device of an active session has succeeded, and the
\* session is still stored as active.
C29_Witness ==
  \E c \in ShutdownCalls :
    /\ Done(c)
    /\ c.ok
    /\ c.observed
    /\ StateOf(devices, c.udid) = "Shutdown"
    /\ \E i \in 1..Len(activeSessions) :
         /\ activeSessions[i].udid = c.udid
         /\ activeSessions[i].state = "active"

(***************************************************************************)
(* C24  Tool invocations overlap                                           *)
(***************************************************************************)
NextToDispatch(a) ==
  /\ ~Dispatched(a)
  /\ \A i \in 1..(Position(a) - 1) : Dispatched(ReceiptOrder[i])

\* C24: handlers are started in receipt order, and a request is dispatched
\* as soon as the requests received before it have been: it does not wait
\* for a call that is suspended in a boot, so the later request can run its
\* handler and complete while the earlier one is still polling.
C24_InvocationsOverlap ==
  /\ \A i, j \in 1..Len(ReceiptOrder) :
       (i < j /\ Dispatched(ReceiptOrder[j])) => Dispatched(ReceiptOrder[i])
  /\ \A a \in CallerIds : NextToDispatch(a) => ENABLED Dispatch(a)

\* Request A is still polling: its last poll saw U1 not yet booted.  Request
\* B, dispatched after it, has looked up the current simulator since then,
\* found U1 booted, and completed.
C24_Witness ==
  /\ calls["A"].op = "bootSimulatorByUDID"
  /\ calls["A"].udid = "U1"
  /\ calls["A"].pc = "wait"
  /\ calls["A"].issued
  /\ calls["A"].polled
  /\ calls["B"].op = "getCurrentSimulator"
  /\ calls["B"].ret = "U1"
  /\ Done(calls["B"])
  /\ calls["B"].ok

(***************************************************************************)
(* C25  The current simulator is recomputed by every call                  *)
(***************************************************************************)
\* A step in which the lookup of the current simulator of caller a gets
\* its enumeration.
LookedUp(a) ==
  /\ calls[a].pc = "list"
  /\ calls'[a].pc # "list"
  /\ calls'[a].error # ListError

\* C25: every lookup of the current simulator yields the device that is the
\* first booted one of the enumeration at the moment of that lookup,
\* whatever device another call was given, so that two calls without a
\* udid can work on different devices.
C25_CurrentRecomputed ==
  [][\A a \in CallerIds :
       LookedUp(a) =>
         LET sims == listAvailableSimulators
             booted == {i \in 1..Len(sims) : sims[i].state = "Booted"}
         IN /\ booted = {} => calls'[a].ret = ""
            /\ booted # {} =>
                 \E i \in booted :
                   /\ \A j \in booted : i <= j
                   /\ calls'[a].ret = sims[i].udid]_vars

\* Two calls have been given different devices.
C25_Witness ==
  /\ \A a \in CallerIds :
       /\ calls[a].op = "getCurrentSimulator"
       /\ Done(calls[a])
       /\ calls[a].ok
       /\ calls[a].ret # ""
  /\ calls["A"].ret # calls["B"].ret

====
